---- MODULE Spec2Model ----
(***************************************************************************)
(* Model of the execution core of the task agent: the context store and    *)
(* parameter resolver (IntelligentContext), the sequence execution engine  *)
(* (execute_method_sequence, execute_iteration_step, execute_llm_step),    *)
(* the plan validator (plan_method_sequence) and the orchestrator.         *)
(*                                                                         *)
(* Strings are sequences of tokens.  The vocabulary is chosen so that      *)
(* every string the model builds has exactly one tokenisation, hence       *)
(* string concatenation is \o, "ends with _id" is "the last token is _id"  *)
(* and "contains the substring id" is "some token contains id".            *)
(* Python values are tagged records [t, v]; dictionaries keep insertion    *)
(* order and are sequences of [k, v] pairs.                                *)
(***************************************************************************)
EXTENDS Integers, Sequences, FiniteSets, TLC

----------------------------------------------------------------------------
\* Python values

NoneV == [t |-> "none", v |-> <<>>]
S(x) == [t |-> "str", v |-> x]
T(x) == [t |-> "str", v |-> <<x>>]
L(x) == [t |-> "list", v |-> x]
D(x) == [t |-> "dict", v |-> x]
I(x) == [t |-> "int", v |-> x]
B(x) == [t |-> "bool", v |-> x]
KV(key, val) == [k |-> key, v |-> val]

IsNone(x) == x.t = "none"
IsStr(x) == x.t = "str"
IsList(x) == x.t = "list"
IsDict(x) == x.t = "dict"
StrIs(x, toks) == x.t = "str" /\ x.v = toks

\* Python truthiness (bool(x))
Truthy(x) ==
  CASE x.t = "none" -> FALSE
    [] x.t = "bool" -> x.v
    [] x.t = "int" -> x.v # 0
    [] OTHER -> Len(x.v) > 0

\* dict operations on an insertion-ordered sequence of [k, v] pairs
Has(d, key) == \E n \in 1..Len(d) : d[n].k = key
Get(d, key) ==
  IF Has(d, key) THEN d[CHOOSE n \in 1..Len(d) : d[n].k = key].v ELSE NoneV
Put(d, key, val) ==
  IF Has(d, key)
  THEN [n \in 1..Len(d) |-> IF d[n].k = key THEN KV(key, val) ELSE d[n]]
  ELSE Append(d, KV(key, val))
Keys(d) == [n \in 1..Len(d) |-> d[n].k]

\* some token of the string is in the set (substring tests on the vocabulary)
AnyToken(str, toks) == \E n \in 1..Len(str) : str[n] \in toks
EndsWith(str, tok) == Len(str) > 0 /\ str[Len(str)] = tok
DropLast(str) == SubSeq(str, 1, Len(str) - 1)

\* str.lower() on the vocabulary
LowerTok(tok) ==
  CASE tok = "Dynamic" -> "dynamic"
    [] tok = "LocalFiles" -> "localfiles"
    [] OTHER -> tok
Lower(str) == [n \in 1..Len(str) |-> LowerTok(str[n])]

\* tokens of the vocabulary that contain the substring "id"
IdTokens == {"id", "_id", "_ids", "ids"}

----------------------------------------------------------------------------
\* IntelligentContext

NewContext == [data |-> <<>>, method_results |-> <<>>, resolution_counters |-> <<>>]

reset_resolution_counters(c) == [c EXCEPT !.resolution_counters = <<>>]

\* self.data[key].extend(items), creating the list first when the key is new
ExtendKey(d, key, items) ==
  Put(d, key, L((IF Has(d, key) THEN Get(d, key).v ELSE <<>>) \o items))

\* [item['id'] for item in value if 'id' in item]
RECURSIVE IdsOf(_)
IdsOf(items) ==
  IF items = <<>> THEN <<>>
  ELSE (IF Has(Head(items).v, <<"id">>) THEN <<Get(Head(items).v, <<"id">>)>> ELSE <<>>)
       \o IdsOf(Tail(items))

\* first loop of _extract_from_dict, one field at a time
RECURSIVE ExtractIdFields(_, _, _, _)
ExtractIdFields(d, method_name, fields, n) ==
  IF n > Len(fields) THEN d
  ELSE LET key == fields[n].k
           value == fields[n].v
           d1 == IF IsList(value) /\ Len(value.v) > 0
                 THEN IF IsDict(value.v[1]) /\ Has(value.v[1].v, <<"id">>)
                      THEN LET ids == IdsOf(value.v)
                               a == ExtendKey(d, key \o <<"_ids">>, ids)
                               b == ExtendKey(a, method_name \o <<"_">> \o key \o <<"_ids">>, ids)
                               c == ExtendKey(b, key \o <<"_data">>, value.v)
                           IN ExtendKey(c, method_name \o <<"_">> \o key \o <<"_data">>, value.v)
                      ELSE d
                 ELSE IF AnyToken(Lower(key), IdTokens)
                      THEN Put(Put(d, method_name \o <<"_id">>, value), <<"last_", "id">>, value)
                      ELSE d
       IN ExtractIdFields(d1, method_name, fields, n + 1)

\* index of the first field whose lowered key is one of the names, 0 when none
FirstField(fields, names) ==
  IF \E n \in 1..Len(fields) : Lower(fields[n].k) \in names
  THEN CHOOSE n \in 1..Len(fields) :
         /\ Lower(fields[n].k) \in names
         /\ \A m \in 1..(n - 1) : Lower(fields[m].k) \notin names
  ELSE 0

extract_from_dict(d, method_name, fields) ==
  LET d1 == ExtractIdFields(d, method_name, fields, 1)
      c == FirstField(fields, {<<"content">>, <<"body">>})
      f == FirstField(fields, {<<"text">>, <<"message">>})
  IN IF c > 0
     THEN LET a == Put(d1, method_name \o <<"_contents">>,
                       L((IF Has(d1, method_name \o <<"_contents">>)
                          THEN Get(d1, method_name \o <<"_contents">>).v ELSE <<>>)
                         \o <<fields[c].v>>))
              b == Put(a, method_name \o <<"_content">>, fields[c].v)
          IN Put(b, <<"last_", "content">>, fields[c].v)
     ELSE IF f > 0
          THEN Put(Put(d1, method_name \o <<"_content">>, fields[f].v),
                   <<"last_", "content">>, fields[f].v)
          ELSE d1

extract_from_list(d, method_name, items) ==
  IF items = <<>> THEN d
  ELSE IF IsDict(items[1])
       THEN LET d1 == IF Has(items[1].v, <<"id">>)
                      THEN Put(Put(d, method_name \o <<"_ids">>, L(IdsOf(items))),
                               <<"ids">>, L(IdsOf(items)))
                      ELSE d
            IN Put(d1, method_name \o <<"_list">>, L(items))
       ELSE IF IsStr(items[1])
            THEN Put(d, method_name \o <<"_ids">>, L(items))
            ELSE d

extract_from_string(d, method_name, text) ==
  Put(Put(d, method_name \o <<"_text">>, text), <<"last_", "text">>, text)

analyze_and_store_data(d, method_name, result) ==
  LET d1 == CASE IsDict(result) -> extract_from_dict(d, method_name, result.v)
              [] IsList(result) -> extract_from_list(d, method_name, result.v)
              [] IsStr(result) -> extract_from_string(d, method_name, result)
              [] OTHER -> d
      rk == method_name \o <<"_results">>
      d2 == Put(d1, rk, L((IF Has(d1, rk) THEN Get(d1, rk).v ELSE <<>>) \o <<result>>))
  IN Put(d2, method_name \o <<"_result">>, result)

store_result(c, method_name, result, signature) ==
  [c EXCEPT
     !.method_results = Append(@, [method |-> method_name, result |-> result,
                                   signature |-> signature, step |-> Len(@)]),
     !.data = analyze_and_store_data(@, method_name, result)]

\* self.resolution_counters as an insertion-ordered dict of name -> next index
Counter(c, name) == IF Has(c.resolution_counters, name) THEN Get(c.resolution_counters, name) ELSE 0

\* the keys _resolve_id_parameter tries for a parameter name, in order
possible_keys(name) ==
  LET prefix == DropLast(name)
  IN << prefix \o <<"_ids">>, prefix \o <<"s", "_ids">>, <<"ids">> >>

\* first of the keys whose value ends the loop (a non-empty list or a string), 0 when none
FirstUsableKey(d, keys) ==
  LET usable(n) == /\ Has(d, keys[n])
                   /\ \/ IsList(Get(d, keys[n])) /\ Len(Get(d, keys[n]).v) > 0
                      \/ IsStr(Get(d, keys[n]))
  IN IF \E n \in 1..Len(keys) : usable(n)
     THEN CHOOSE n \in 1..Len(keys) : usable(n) /\ \A m \in 1..(n - 1) : ~usable(m)
     ELSE 0

\* a variant that ignores the counter and always yields the first element
PickIdFirst(ids, index) == ids[1]
\* the element a list of ids yields for a counter value (index, else the last one)
PickId(ids, index) == IF index < Len(ids) THEN ids[index + 1] ELSE ids[Len(ids)]

\* a variant of _resolve_id_parameter that advances the counter on every
\* resolution, the lone scalar and the last_id fallback included
ResolveIdAlwaysCounts(c, name) ==
  IF ~EndsWith(name, "_id") THEN [value |-> NoneV, ctx |-> c, key |-> <<>>]
  ELSE LET keys == possible_keys(name)
           n == FirstUsableKey(c.data, keys)
           counted == [c EXCEPT !.resolution_counters = Put(@, name, Counter(c, name) + 1)]
       IN IF n > 0
          THEN IF IsList(Get(c.data, keys[n]))
               THEN [value |-> PickId(Get(c.data, keys[n]).v, Counter(c, name)),
                     ctx |-> counted, key |-> <<>>]
               ELSE [value |-> Get(c.data, keys[n]), ctx |-> counted, key |-> keys[n]]
          ELSE [value |-> Get(c.data, <<"last_", "id">>), ctx |-> counted,
                key |-> <<"last_", "id">>]

\* _resolve_id_parameter: the value and the context after the call
resolve_id_parameter(c, name) ==
  IF ~EndsWith(name, "_id") THEN [value |-> NoneV, ctx |-> c, key |-> <<>>]
  ELSE LET keys == possible_keys(name)
           n == FirstUsableKey(c.data, keys)
       IN IF n > 0
          THEN LET ids == Get(c.data, keys[n])
               IN IF IsList(ids)
                  THEN [value |-> PickId(ids.v, Counter(c, name)),
                        ctx |-> [c EXCEPT !.resolution_counters =
                                   Put(@, name, Counter(c, name) + 1)],
                        key |-> <<>>]
                  ELSE [value |-> ids, ctx |-> c, key |-> keys[n]]
          ELSE [value |-> Get(c.data, <<"last_", "id">>), ctx |-> c,
                key |-> <<"last_", "id">>]

\* the table of _resolve_by_pattern: context keys (strings) or literal integers
patterns(name) ==
  CASE name = <<"to">> -> <<T("email"), T("recipient"), T("destination")>>
    [] name = <<"subject">> -> <<T("title"), T("topic"), T("asunto")>>
    [] name = <<"body">> -> <<S(<<"drive", ".", "read_file", "_content">>),
                              S(<<"llm", ".", "generate", "_content">>),
                              T("content"), T("text"), T("message"), T("description")>>
    [] name = <<"content">> -> <<T("body"), T("text"), T("message")>>
    [] name = <<"query">> -> <<T("search"), T("term"), T("keyword")>>
    [] name = <<"max_results">> -> <<I(10), I(5)>>
    [] OTHER -> <<>>

\* the value and the context key it is the value of (<<>> for a literal)
resolve_by_pattern(d, name) ==
  LET pats == patterns(name)
      hit(n) == (pats[n].t = "str" /\ Has(d, pats[n].v)) \/ pats[n].t = "int"
  IN IF \E n \in 1..Len(pats) : hit(n)
     THEN LET n == CHOOSE n \in 1..Len(pats) : hit(n) /\ \A m \in 1..(n - 1) : ~hit(m)
          IN IF pats[n].t = "str" THEN [value |-> Get(d, pats[n].v), key |-> pats[n].v]
             ELSE [value |-> pats[n], key |-> <<>>]
     ELSE [value |-> NoneV, key |-> <<>>]

resolve_last_relevant(d, name) ==
  LET keys == << <<"last_">> \o name, name \o <<"_result">>,
                 <<"last_", "content">>, <<"last_", "text">> >>
  IN IF \E n \in 1..Len(keys) : Has(d, keys[n])
     THEN LET n == CHOOSE n \in 1..Len(keys) :
                     Has(d, keys[n]) /\ \A m \in 1..(n - 1) : ~Has(d, keys[m])
          IN [value |-> Get(d, keys[n]), key |-> keys[n]]
     ELSE [value |-> NoneV, key |-> <<>>]

\* strategies 3 and 4 of resolve_parameter
ResolveLater(c, byPattern, last) ==
  IF ~IsNone(byPattern.value)
  THEN [value |-> byPattern.value, ctx |-> c, key |-> byPattern.key]
  ELSE [value |-> last.value, ctx |-> c, key |-> last.key]

\* strategy 2 of resolve_parameter, then the later ones
ResolveFromId(c, name, byId) ==
  IF ~IsNone(byId.value) THEN byId
  ELSE ResolveLater(byId.ctx, resolve_by_pattern(c.data, name),
                    resolve_last_relevant(c.data, name))

\* resolve_parameter: the strategies in order, the first result that is not None
resolve_parameter(c, name) ==
  IF ~IsNone(Get(c.data, name))
  THEN [value |-> Get(c.data, name), ctx |-> c, key |-> name]
  ELSE ResolveFromId(c, name, resolve_id_parameter(c, name))


----------------------------------------------------------------------------
\* State

VARIABLES
  pc,           \* position of the request: in the orchestrator, the engine, or ended
  orch,         \* the orchestrator's locals: user_id, decision, sink
  ctx,          \* the IntelligentContext of the request
  tool_list,    \* execute_method_sequence: tool_list
  sequence,     \* the plan being executed
  i,            \* 0-based index of the step being processed
  results,      \* execute_method_sequence: results
  iter,         \* the running iteration step: array, element index, outcomes
  ret,          \* what execute_method_sequence returned or raised
  response,     \* what the orchestrator returned or raised
  invocations,  \* every call of a tool method: step, tool, method, arguments
  llm_calls,    \* every call of call_llm: its purpose and prompt
  events,       \* every event given to the event sink
  ghost         \* history needed to state the properties

vars == <<pc, orch, ctx, tool_list, sequence, i, results, iter, ret, response,
          invocations, llm_calls, events, ghost>>

\* bounds
MaxIds == 3
MaxStores == 2
MaxResolves == 4

NoIter == [on |-> FALSE]
\* raises: the event type the supplied sink raises on ("" when on none)
NoOrch == [user_id |-> NoneV, sink |-> FALSE, raises |-> "", actions |-> <<>>,
           task_type |-> NoneV]
NoLast == [op |-> "none"]
NoGhost == [stores |-> 0, resolves |-> 0, nres |-> <<>>, seen |-> <<>>, stable |-> <<>>,
            returned |-> <<>>, last |-> NoLast]

USER_ID == <<"user", "_id">>
UserId == T("u1")

----------------------------------------------------------------------------
\* Results a tool method (an external collaborator) can hand to store_result

IdItems(prefix, n) == [k \in 1..n |-> D(<<KV(<<"id">>, S(<<prefix, ToString(k)>>))>>)]

ReadFileResult ==
  D(<<KV(<<"success">>, B(TRUE)), KV(<<"content">>, T("F1")), KV(<<"message">>, T("M_read"))>>)
SendEmailResult ==
  D(<<KV(<<"success">>, B(TRUE)), KV(<<"id">>, T("s1")), KV(<<"message">>, T("M_sent"))>>)
ListEmailsResult ==
  D(<<KV(<<"success">>, B(TRUE)), KV(<<"message", "s">>, L(IdItems("m", MaxIds))),
      KV(<<"message">>, T("M_list"))>>)
SearchEmailsResult ==
  D(<<KV(<<"success">>, B(TRUE)), KV(<<"message", "s">>, L(IdItems("n", 1))),
      KV(<<"message">>, T("M_search"))>>)
ReadEmailResult ==
  D(<<KV(<<"success">>, B(TRUE)), KV(<<"message", "_id">>, T("m1")), KV(<<"body">>, T("B1")),
      KV(<<"message">>, T("M_mail"))>>)
LlmGenerateResult == D(<<KV(<<"content">>, T("G1")), KV(<<"task">>, T("summarize"))>>)
ListShapedResult == L(IdItems("x", 2))
ShortListResult == L(IdItems("y", 1))
StringResult == T("plain")

LOCAL_READ_FILE == <<"LocalFiles", ".", "read_file">>
GMAIL_SEND_EMAIL == <<"gmail", ".", "send_email">>
GMAIL_LIST_EMAILS == <<"gmail", ".", "list_emails">>
GMAIL_SEARCH_EMAILS == <<"gmail", ".", "search_emails">>
GMAIL_READ_EMAIL == <<"gmail", ".", "read_email">>
LLM_GENERATE == <<"llm", ".", "generate">>

\* the store_result calls of the context-level specification: method key, result
StoreCalls ==
  << KV(LOCAL_READ_FILE, ReadFileResult),
     KV(GMAIL_SEND_EMAIL, SendEmailResult),
     KV(GMAIL_LIST_EMAILS, ListEmailsResult),
     KV(GMAIL_SEARCH_EMAILS, SearchEmailsResult),
     KV(GMAIL_READ_EMAIL, ReadEmailResult),
     KV(LLM_GENERATE, LlmGenerateResult),
     KV(GMAIL_SEARCH_EMAILS, ListShapedResult),
     KV(GMAIL_SEARCH_EMAILS, ShortListResult),
     KV(LOCAL_READ_FILE, StringResult) >>

\* the parameter names the context-level specification resolves
ResolveNames == { <<"message", "_id">>, USER_ID, <<"body">> }

----------------------------------------------------------------------------
\* Context-level specification: any interleaving of store_result and of
\* resolutions on the context of one run.

\* the identifier list _resolve_id_parameter walks for a name, None when it has none
IdListFor(d, name) ==
  LET n == FirstUsableKey(d, possible_keys(name))
  IN IF EndsWith(name, "_id") /\ n > 0 /\ IsList(Get(d, possible_keys(name)[n]))
     THEN Get(d, possible_keys(name)[n]) ELSE NoneV

Count(g, name) == IF Has(g.nres, name) THEN Get(g.nres, name) ELSE 0

\* ghost update for a resolution of name that returned r
Resolved(g, op, c, name, r) ==
  LET ids == IdListFor(c.data, name)
      n == Count(g, name) + 1
      same == n = 1 \/ (Get(g.stable, name) /\ Get(g.seen, name) = ids)
  IN [g EXCEPT !.resolves = @ + 1,
               !.nres = Put(@, name, n),
               !.seen = Put(@, name, ids),
               !.stable = Put(@, name, same),
               !.returned = IF Counter(r.ctx, name) # Counter(c, name)
                            THEN Append(@, [name |-> name, value |-> r.value])
                            ELSE @,
               !.last = [op |-> op, name |-> name, value |-> r.value, n |-> n,
                         ids |-> ids, stable |-> same,
                         exact |-> ~IsNone(Get(c.data, name))]]

InitCtx ==
  /\ pc = "ctx"
  /\ orch = NoOrch
  /\ \E uid \in BOOLEAN :
       ctx = reset_resolution_counters(
               [NewContext EXCEPT !.data = IF uid THEN <<KV(USER_ID, UserId)>> ELSE <<>>])
  /\ tool_list = <<>> /\ sequence = <<>> /\ i = 0 /\ results = <<>>
  /\ iter = NoIter /\ ret = NoneV /\ response = NoneV
  /\ invocations = <<>> /\ llm_calls = <<>> /\ events = <<>>
  /\ ghost = NoGhost

EngineUnchanged ==
  UNCHANGED <<pc, orch, tool_list, sequence, i, results, iter, ret, response,
              invocations, llm_calls, events>>

CtxStore ==
  /\ pc = "ctx" /\ ghost.stores < MaxStores
  /\ \E n \in 1..Len(StoreCalls) :
       /\ ctx' = store_result(ctx, StoreCalls[n].k, StoreCalls[n].v, <<>>)
       /\ ghost' = [ghost EXCEPT !.stores = @ + 1,
                                 !.last = [op |-> "store", method |-> StoreCalls[n].k,
                                           result |-> StoreCalls[n].v]]
  /\ EngineUnchanged

CtxResolve ==
  /\ pc = "ctx" /\ ghost.resolves < MaxResolves
  /\ \E name \in ResolveNames :
       LET r == resolve_parameter(ctx, name)
       IN /\ ctx' = r.ctx
          /\ ghost' = Resolved(ghost, "resolve_parameter", ctx, name, r)
  /\ EngineUnchanged

CtxResolveId ==
  /\ pc = "ctx" /\ ghost.resolves < MaxResolves
  /\ \E name \in {x \in ResolveNames : EndsWith(x, "_id")} :
       LET r == resolve_id_parameter(ctx, name)
       IN /\ ctx' = r.ctx
          /\ ghost' = Resolved(ghost, "resolve_id_parameter", ctx, name, r)
  /\ EngineUnchanged

NextCtx == CtxStore \/ CtxResolve \/ CtxResolveId

SpecCtx == InitCtx /\ [][NextCtx]_vars


----------------------------------------------------------------------------
\* Properties of the context store (SpecCtx)

LastIsResolution == ghost.last.op \in {"resolve_parameter", "resolve_id_parameter"}

\* the last operation resolved an identifier-suffixed name while the context held
\* the same non-empty identifier list at this and at every earlier resolution of it
LastWalksStableList ==
  /\ LastIsResolution
  /\ EndsWith(ghost.last.name, "_id")
  /\ IsList(ghost.last.ids)
  /\ ghost.last.stable

\* the element the claim names for the n-th resolution: index min(n-1, L-1)
NthOrLast(ids, n) == IF n <= Len(ids) THEN ids[n] ELSE ids[Len(ids)]

\* C4 as stated: with an unchanged identifier list of length L >= 1 for the
\* parameter's concept, the n-th resolution of the name returns the element at
\* index min(n-1, L-1), whichever way the name is resolved.
C4_NthResolutionAnyPath ==
  LastWalksStableList => ghost.last.value = NthOrLast(ghost.last.ids.v, ghost.last.n)

\* resolve_parameter answered from an entry stored under the parameter name itself
LastWasExactMatch == ghost.last.op = "resolve_parameter" /\ ghost.last.exact

\* C4 amended: the same, for every name that has no entry of its own in the
\* context at any of its resolutions (strategy 1 of resolve_parameter returns
\* such an entry before the identifier list is consulted).
C4_NthResolution ==
  (LastWalksStableList /\ ~Has(ctx.data, ghost.last.name))
     => ghost.last.value = NthOrLast(ghost.last.ids.v, ghost.last.n)

\* C4 witness: a fourth resolution of message_id over an unchanged list of three.
C4_Witness ==
  /\ LastWalksStableList
  /\ ~Has(ctx.data, ghost.last.name)
  /\ ghost.last.n > Len(ghost.last.ids.v)
  /\ Len(ghost.last.ids.v) >= 3

HasContentField(result) == IsDict(result) /\ Has(result.v, <<"content">>)
MessageOnly(result) ==
  /\ IsDict(result) /\ Has(result.v, <<"message">>)
  /\ \A key \in {<<"content">>, <<"body">>, <<"text">>} : ~Has(result.v, key)

\* the context holds a file-read result and a confirmation-style result, and nothing else
ReadAndConfirmationStored ==
  /\ \E n \in 1..Len(ctx.method_results) :
       /\ ctx.method_results[n].method = LOCAL_READ_FILE
       /\ HasContentField(ctx.method_results[n].result)
  /\ \E n \in 1..Len(ctx.method_results) : MessageOnly(ctx.method_results[n].result)
  /\ \A n \in 1..Len(ctx.method_results) :
       \/ ctx.method_results[n].method = LOCAL_READ_FILE
            /\ HasContentField(ctx.method_results[n].result)
       \/ MessageOnly(ctx.method_results[n].result)

\* C5 as stated: with a file-read result and a confirmation-style result in the
\* context, in either order, resolve_parameter("body") returns the file content.
C5_BodyPrefersFileContent ==
  (ghost.last.op = "resolve_parameter" /\ ghost.last.name = <<"body">>
     /\ ReadAndConfirmationStored)
    => ghost.last.value = Get(ReadFileResult.v, <<"content">>)


----------------------------------------------------------------------------
\* Tool Registry and argument filtering

MESSAGE_ID == <<"message", "_id">>
FILE_ID == <<"file", "_id">>

Method(name, params, required) == [name |-> name, params |-> params, required |-> required]

\* TOOL_REGISTRY: tool name -> methods, each with the parameter names of its
\* signature (the **kwargs parameter is the name "kwargs") and the required ones
TOOL_REGISTRY(tool) ==
  CASE tool = "gmail" ->
         << Method(<<"send_email">>,
                   <<USER_ID, <<"to">>, <<"subject">>, <<"body">>, <<"kwargs">>>>,
                   {USER_ID, <<"to">>, <<"subject">>, <<"body">>}),
            Method(<<"list_emails">>,
                   <<USER_ID, <<"label">>, <<"max_results">>, <<"query">>, <<"kwargs">>>>,
                   {USER_ID}),
            Method(<<"read_email">>, <<USER_ID, MESSAGE_ID, <<"kwargs">>>>,
                   {USER_ID, MESSAGE_ID}),
            Method(<<"search_emails">>,
                   <<USER_ID, <<"from_email">>, <<"to_email">>, <<"subject">>, <<"content">>,
                     <<"date_after">>, <<"date_before">>, <<"has_attachment">>,
                     <<"max_results">>, <<"kwargs">>>>,
                   {USER_ID}),
            Method(<<"test_connection">>, <<USER_ID, <<"kwargs">>>>, {USER_ID}) >>
    [] tool = "LocalFiles" ->
         << Method(<<"list_files">>,
                   <<USER_ID, <<"query">>, <<"max_results">>, <<"auto_select">>, <<"kwargs">>>>,
                   {USER_ID}),
            Method(<<"read_file">>, <<USER_ID, <<"path">>, FILE_ID, <<"kwargs">>>>,
                   {USER_ID}) >>
    [] OTHER -> <<>>

list_tools == <<"gmail", "LocalFiles">>

SeqHas(seq, x) == \E n \in 1..Len(seq) : seq[n] = x

\* tool.get(method_name): the method's entry, None when the tool has none
tool_get(tool, method_name) ==
  LET ms == TOOL_REGISTRY(tool)
  IN IF \E n \in 1..Len(ms) : ms[n].name = method_name
     THEN ms[CHOOSE n \in 1..Len(ms) : ms[n].name = method_name]
     ELSE NoneV

RECURSIVE FilterPairs(_, _)
FilterPairs(args, params) ==
  IF args = <<>> THEN <<>>
  ELSE (IF SeqHas(params, Head(args).k) /\ ~IsNone(Head(args).v)
        THEN <<Head(args)>> ELSE <<>>) \o FilterPairs(Tail(args), params)

\* a variant of filter_valid_args that keeps the arguments whose value is None
FilterKeepsNone(meta, args) == SelectSeq(args, LAMBDA a : SeqHas(meta.params, a.k))

\* filter_valid_args: the arguments the signature names, without the None ones
filter_valid_args(meta, args) == FilterPairs(args, meta.params)

\* func(**filtered_args) binds: every parameter without a default is given
Binds(meta, args) == \A name \in meta.required : Has(args, name)

----------------------------------------------------------------------------
\* resolve_dynamic_arguments_with_llm

\* {k: v for k, v in args.items() if isinstance(v, str) and v.lower() == "dynamic"}
RECURSIVE dynamic_params(_)
dynamic_params(args) ==
  IF args = <<>> THEN <<>>
  ELSE (IF IsStr(Head(args).v) /\ Lower(Head(args).v.v) = <<"dynamic">>
        THEN <<Head(args).k>> ELSE <<>>) \o dynamic_params(Tail(args))

\* step 1: identifier-suffixed names by the counter, the rest left for the LLM
RECURSIVE ResolveIds(_, _, _, _)
ResolveIds(c, names, resolved, remaining) ==
  IF names = <<>> THEN [ctx |-> c, resolved |-> resolved, remaining |-> remaining]
  ELSE LET name == Head(names)
           r == resolve_id_parameter(c, name)
       IN IF EndsWith(name, "_id")
          THEN IF ~IsNone(r.value)
               THEN ResolveIds(r.ctx, Tail(names), Put(resolved, name, r.value), remaining)
               ELSE ResolveIds(r.ctx, Tail(names), resolved, Append(remaining, name))
          ELSE ResolveIds(c, Tail(names), resolved, Append(remaining, name))

\* dict.update
RECURSIVE Update(_, _)
Update(d, other) ==
  IF other = <<>> THEN d ELSE Update(Put(d, Head(other).k, Head(other).v), Tail(other))

\* tokens of the vocabulary containing one of the substrings the snapshot filter looks for
SnapshotTokens ==
  IdTokens \cup {"content", "_content", "_contents", "text", "_text", "email", "send_email",
                 "read_email", "list_emails", "search_emails", "subject", "body"}

RECURSIVE SelectKeys(_, _)
SelectKeys(d, toks) ==
  IF d = <<>> THEN <<>>
  ELSE (IF AnyToken(Lower(Head(d).k), toks) THEN <<Head(d).k>> ELSE <<>>)
       \o SelectKeys(Tail(d), toks)

\* What the LLM can answer the argument resolver, for the names it is asked:
\* the call fails, the text is not JSON, the JSON is not an object, or an object
\* that gives each asked name a value, null or nothing, possibly with one key
\* it was not asked for.
LlmValue == T("L1")
LlmExtra == T("L2")

RECURSIVE ObjectsOver(_)
ObjectsOver(names) ==
  IF names = <<>> THEN {<<>>}
  ELSE LET rest == ObjectsOver(Tail(names))
       IN UNION { { r, <<KV(Head(names), LlmValue)>> \o r, <<KV(Head(names), NoneV)>> \o r }
                  : r \in rest }

RECURSIVE AllValues(_)
AllValues(names) ==
  IF names = <<>> THEN <<>> ELSE <<KV(Head(names), LlmValue)>> \o AllValues(Tail(names))

LlmResolverAnswers(remaining, args) ==
  {[kind |-> k, obj |-> <<>>] : k \in {"raise", "not_json", "not_object"}}
  \cup {[kind |-> "object", obj |-> o] : o \in ObjectsOver(remaining)}
  \cup {[kind |-> "object", obj |-> Append(AllValues(remaining), KV(k, LlmExtra))]
          : k \in ({args[n].k : n \in 1..Len(args)} \cup {USER_ID})
                  \ {remaining[n] : n \in 1..Len(remaining)}}

NoAnswer == [kind |-> "none", obj |-> <<>>]

\* the prompt of the resolver's LLM call
ResolverRequest(method_name, ids) ==
  [purpose |-> "resolve_arguments", method |-> method_name, keys |-> ids.remaining,
   snapshot |-> SelectKeys(ids.ctx.data, SnapshotTokens)]

\* a variant of steps 2 to 4 that calls the LLM also when no name is left
ResolveAlwaysAsks(method_name, answer, ids) ==
  IF answer.kind = "object"
  THEN [raised |-> FALSE, resolved |-> Update(ids.resolved, answer.obj),
        ctx |-> ids.ctx, asked |-> <<ResolverRequest(method_name, ids)>>]
  ELSE [raised |-> ids.remaining # <<>>, resolved |-> ids.resolved, ctx |-> ids.ctx,
        asked |-> <<ResolverRequest(method_name, ids)>>]

\* steps 2 to 4, after the identifier-suffixed names went through the counter
ResolveWithLlm(method_name, answer, ids) ==
  IF ids.remaining = <<>>
  THEN [raised |-> FALSE, resolved |-> ids.resolved, ctx |-> ids.ctx, asked |-> <<>>]
  ELSE IF answer.kind = "object"
       THEN [raised |-> FALSE, resolved |-> Update(ids.resolved, answer.obj),
             ctx |-> ids.ctx, asked |-> <<ResolverRequest(method_name, ids)>>]
       ELSE [raised |-> TRUE, resolved |-> <<>>, ctx |-> ids.ctx,
             asked |-> <<ResolverRequest(method_name, ids)>>]

\* the call: the mapping returned or the error raised, the context afterwards,
\* and the LLM request made (when one is made)
resolve_dynamic_arguments_with_llm(c, method_name, args, answer) ==
  IF dynamic_params(args) = <<>>
  THEN [raised |-> FALSE, resolved |-> <<>>, ctx |-> c, asked |-> <<>>]
  ELSE ResolveWithLlm(method_name, answer, ResolveIds(c, dynamic_params(args), <<>>, <<>>))

\* the names the resolver would ask the LLM for
Remaining(c, args) == ResolveIds(c, dynamic_params(args), <<>>, <<>>).remaining

----------------------------------------------------------------------------
\* generate_content_if_needed

\* tokens of the vocabulary that contain one of the generation triggers as a substring
TriggerTokens == {"dynamic", "auto", "generate", "dynamic_summary", "auto_summary",
                  "generate_content", "create_content", "automatic", "regenerate"}

needs_content_generation(value) ==
  /\ Truthy(value)
  /\ IsStr(value)
  /\ AnyToken(Lower(value.v), TriggerTokens)

\* outcome of _generate_contextual_content: the stripped text, or the error
\* string it returns when the call fails
GenOutcomes == {"text", "empty", "fails"}
generate_contextual_content(name, outcome) ==
  CASE outcome = "text" -> T("G2")
    [] outcome = "empty" -> S(<<>>)
    [] OTHER -> S(<<"Error al generar contenido LLM: ">> \o name)

generate_content_if_needed(name, value, outcome) ==
  IF ~needs_content_generation(value) THEN value
  ELSE IF Truthy(generate_contextual_content(name, outcome))
       THEN generate_contextual_content(name, outcome)
       ELSE value


----------------------------------------------------------------------------
\* Plans: the steps a planner reply is built from

MaxSteps == 3
MaxIterations == 4

ToolCall(tool, method, args) ==
  [action |-> "", iterate |-> FALSE, tool |-> tool, method |-> method,
   source |-> <<>>, args |-> args, task |-> NoneV]
LlmBridge(task) ==
  [action |-> "llm", iterate |-> FALSE, tool |-> "", method |-> <<>>,
   source |-> <<>>, args |-> <<>>, task |-> task]
Iteration(tool, method, source, args) ==
  [action |-> "", iterate |-> TRUE, tool |-> tool, method |-> method,
   source |-> source, args |-> args, task |-> NoneV]

MESSAGES_IDS == <<"message", "s", "_ids">>

\* a step without a "tool" key has tool = ""
StepListEmails == ToolCall("", <<"list_emails">>, <<KV(<<"query">>, T("X"))>>)
StepReadEmail == ToolCall("gmail", <<"read_email">>, <<KV(MESSAGE_ID, T("dynamic"))>>)
StepReadById == ToolCall("", <<"read_email">>, <<KV(<<"id">>, T("dynamic"))>>)
StepSendEmail ==
  ToolCall("", <<"send_email">>,
           <<KV(<<"to">>, T("a@b")), KV(<<"subject">>, T("Hi")), KV(<<"body">>, T("dynamic"))>>)
StepLlm == LlmBridge(T("summarize"))
StepSearchEach ==
  Iteration("", <<"search_emails">>, MESSAGES_IDS,
            <<KV(<<"subject">>, T("iterate_value")), KV(USER_ID, T("dynamic"))>>)
StepUnknownTool == ToolCall("nope", <<"list_emails">>, <<>>)

StepPool == {StepListEmails, StepReadEmail, StepReadById, StepSendEmail, StepLlm,
             StepSearchEach, StepUnknownTool}

Plans(n) == UNION {[1..k -> StepPool] : k \in 1..n}

\* steps that name a method the tool does not have
StepNoSuchMethod == ToolCall("", <<"no_such">>, <<>>)
StepEachNoSuchMethod ==
  Iteration("", <<"no_such">>, MESSAGES_IDS, <<KV(<<"subject">>, T("iterate_value"))>>)
\* an optional parameter marked dynamic
StepListDynamic == ToolCall("", <<"list_emails">>, <<KV(<<"query">>, T("dynamic"))>>)
\* a literal phrase that contains the letters "auto"
AUTOMATIC_REPLY == <<"my ", "automatic", " reply">>
StepListAuto == ToolCall("", <<"list_emails">>, <<KV(<<"query">>, S(AUTOMATIC_REPLY))>>)

\* an identifier parameter and the caller identity, both marked dynamic
StepReadAsUser ==
  ToolCall("", <<"read_email">>, <<KV(MESSAGE_ID, T("dynamic")), KV(USER_ID, T("dynamic"))>>)
\* a plan that names a caller identity of its own
OTHER_USER == T("u2")
StepListAsOther == ToolCall("", <<"list_emails">>, <<KV(USER_ID, OTHER_USER)>>)
StepSearchEachAsOther ==
  Iteration("", <<"search_emails">>, MESSAGES_IDS,
            <<KV(<<"subject">>, T("iterate_value")), KV(USER_ID, OTHER_USER)>>)

\* further plans, beside those over StepPool
ExtraPlans ==
  { <<StepNoSuchMethod, StepLlm>>, <<StepEachNoSuchMethod, StepLlm>>,
    <<StepListEmails, StepEachNoSuchMethod, StepLlm>>,
    <<StepListDynamic>>, <<StepListAuto>>,
    <<StepListEmails, StepReadAsUser>>,
    <<StepListAsOther>>, <<StepListEmails, StepSearchEachAsOther>> }

----------------------------------------------------------------------------
\* Outcomes of the external calls

FailedResult ==
  D(<<KV(<<"success">>, B(FALSE)), KV(<<"error">>, T("E1")), KV(<<"message">>, T("M_error"))>>)
EmptySearchResult ==
  D(<<KV(<<"success">>, B(TRUE)), KV(<<"message", "s">>, L(<<>>)),
      KV(<<"message">>, T("M_none"))>>)
ListFilesResult ==
  D(<<KV(<<"success">>, B(TRUE)), KV(<<"files">>, L(<<D(<<KV(<<"name">>, T("f1"))>>)>>)),
      KV(<<"message">>, T("M_files"))>>)

\* what a call of the method can return; it can also raise
ToolOutcomes(method) ==
  CASE method = <<"list_emails">> -> <<ListEmailsResult, FailedResult>>
    [] method = <<"read_email">> -> <<ReadEmailResult, FailedResult>>
    [] method = <<"send_email">> -> <<SendEmailResult, FailedResult>>
    [] method = <<"search_emails">> -> <<SearchEmailsResult, EmptySearchResult, FailedResult>>
    [] method = <<"read_file">> -> <<ReadFileResult, FailedResult>>
    [] method = <<"list_files">> -> <<ListFilesResult, FailedResult>>
    [] OTHER -> <<FailedResult>>

\* the outcome with number o of a call: 0 raises, n returns the n-th result
Raises(method, o) == o = 0 \/ o > Len(ToolOutcomes(method))
Returned(method, o) == ToolOutcomes(method)[o]

\* what the LLM can answer an LlmBridge prompt (or the call raises)
BridgeReplies ==
  { <<"A1">>, <<"fence_html", "A1", "fence">>, <<"fence", "A1", "fence">>,
    <<"{body:", "A1", "}">>, <<"{x:", "A1", "}">>, <<"raise">> }

----------------------------------------------------------------------------
\* execute_llm_step

\* a or b or c or d: the first truthy operand, else the last one
RECURSIVE OrChain(_)
OrChain(vals) ==
  IF Len(vals) = 1 \/ Truthy(Head(vals)) THEN Head(vals) ELSE OrChain(Tail(vals))

\* a variant that takes the message field before the content fields
ContentOfMessageFirst(result) ==
  IF IsDict(result)
  THEN OrChain(<<Get(result.v, <<"message">>), Get(result.v, <<"content">>),
                 Get(result.v, <<"body">>),
                 IF Has(result.v, <<"text">>) THEN Get(result.v, <<"text">>) ELSE S(<<>>)>>)
  ELSE IF IsStr(result) THEN result ELSE S(<<>>)
\* the text execute_llm_step takes from one stored result
ContentOf(result) ==
  IF IsDict(result)
  THEN OrChain(<<Get(result.v, <<"content">>), Get(result.v, <<"body">>),
                 Get(result.v, <<"text">>),
                 IF Has(result.v, <<"message">>) THEN Get(result.v, <<"message">>)
                 ELSE S(<<>>)>>)
  ELSE IF IsStr(result) THEN result ELSE S(<<>>)

\* context_content: one section per stored result that has text, in stored order
RECURSIVE Digest(_)
Digest(method_results) ==
  IF method_results = <<>> THEN <<>>
  ELSE (IF Truthy(ContentOf(Head(method_results).result))
        THEN <<[step |-> Head(method_results).step, method |-> Head(method_results).method,
                content |-> ContentOf(Head(method_results).result)]>>
        ELSE <<>>) \o Digest(Tail(method_results))

DefaultTask == T("procesar información")
TaskOf(step) == IF IsNone(step.task) THEN DefaultTask ELSE step.task

\* llm_prompt: the task, the digest and the first three entries of the context
BridgePrompt(c, step) ==
  [purpose |-> "bridge", task |-> TaskOf(step), digest |-> Digest(c.method_results),
   excerpt |-> SubSeq(c.data, 1, IF Len(c.data) < 3 THEN Len(c.data) ELSE 3)]

\* removal of the markdown fence around the reply
StripFences(raw) ==
  IF raw[1] = "fence_html"
  THEN SelectSeq(raw, LAMBDA tok : tok \notin {"fence_html", "fence"})
  ELSE IF raw[1] = "fence"
       THEN LET rest == Tail(raw)
                fences == {n \in 1..Len(rest) : rest[n] = "fence"}
            IN IF fences = {} THEN rest
               ELSE SubSeq(rest, 1, (CHOOSE n \in fences : \A m \in fences : m <= n) - 1)
       ELSE raw

normalize_llm_output(out) ==
  IF Len(out) = 3 /\ out[1] = "{body:" THEN <<out[2]>> ELSE out

\* the step's result fields and the context after the step
execute_llm_step(c, step, reply) ==
  IF reply = <<"raise">>
  THEN [ctx |-> c,
        result |-> <<KV(<<"success">>, B(FALSE)),
                     KV(<<"error">>, S(<<"Error en procesamiento LLM: ", "raised">>))>>]
  ELSE LET text == S(normalize_llm_output(StripFences(reply)))
       IN [ctx |-> store_result(c, LLM_GENERATE,
                                D(<<KV(<<"content">>, text), KV(<<"task">>, TaskOf(step))>>),
                                <<>>),
           result |-> <<KV(<<"success">>, B(TRUE)), KV(<<"result">>, text)>>]

----------------------------------------------------------------------------
\* execute_method_sequence: values it builds

MethodLabel(step) == IF step.method = <<>> THEN <<"None">> ELSE step.method
MethodValue(step) == IF step.method = <<>> THEN NoneV ELSE S(step.method)

HasMethod(tool, method_name) ==
  \E n \in 1..Len(TOOL_REGISTRY(tool)) : TOOL_REGISTRY(tool)[n].name = method_name

\* str(result)[:200]
Str200(result) == [t |-> "str200", v |-> result]

EngineFailure(res, err, idx) ==
  [t |-> "returned",
   v |-> D(<<KV(<<"success">>, B(FALSE)), KV(<<"error">>, err), KV(<<"results">>, L(res)),
             KV(<<"stopped_at_step">>, I(idx + 1))>>)]
\* the context_data entry of the result is the context's data itself (ctx.data)
EngineSuccess(res, total) ==
  [t |-> "returned",
   v |-> D(<<KV(<<"success">>, B(TRUE)), KV(<<"results">>, L(res)),
             KV(<<"total_steps">>, I(total))>>)]
EngineRaised(err) == [t |-> "raised", v |-> err]

\* the loop goes on with the next step, or the function returns after the last one
Advance(res, idx, total) ==
  IF idx + 1 >= total
  THEN [pc |-> "returned", i |-> idx + 1, ret |-> EngineSuccess(res, total)]
  ELSE [pc |-> "exec", i |-> idx + 1, ret |-> NoneV]

ErrorEntry(tool, label, reason) ==
  D(<<KV(<<"tool">>, T(tool)), KV(<<"method">>, S(label)), KV(<<"success">>, B(FALSE)),
      KV(<<"error">>, S(<<"Error ejecutando ", tool, ".">> \o label \o <<": ", reason>>))>>)
SuccessEntry(tool, label, result) ==
  D(<<KV(<<"tool">>, T(tool)), KV(<<"method">>, S(label)), KV(<<"success">>, B(TRUE)),
      KV(<<"result">>, Str200(result))>>)

\* the except branch of a ToolCall step, a variant that goes on with the next step
ToolCallFailedContinues(res, idx, entry, total) ==
  [results |-> Append(res, entry)] @@ Advance(Append(res, entry), idx, total)
\* the except branch of a ToolCall step: the failure is recorded and the run returns
ToolCallFailed(res, idx, entry, total) ==
  [results |-> Append(res, entry), pc |-> "returned", i |-> idx,
   ret |-> EngineFailure(Append(res, entry), Get(entry.v, <<"error">>), idx)]

\* the loop that builds resolved_args of a ToolCall step
RECURSIVE BuildArgs(_, _, _, _)
BuildArgs(acc, args, dyn, gen) ==
  IF args = <<>> THEN acc
  ELSE LET name == Head(args).k
           value == Head(args).v
           r == resolve_parameter(acc.ctx, name)
           g == generate_content_if_needed(name, value, gen)
       IN IF Has(dyn, name)
          THEN BuildArgs([acc EXCEPT !.resolved = Put(@, name, Get(dyn, name))],
                         Tail(args), dyn, gen)
          ELSE IF StrIs(value, <<"dynamic">>)
               THEN BuildArgs([acc EXCEPT !.ctx = r.ctx, !.resolved = Put(@, name, r.value)],
                              Tail(args), dyn, gen)
               ELSE BuildArgs([acc EXCEPT
                                 !.resolved = Put(@, name, IF Truthy(g) THEN g ELSE value),
                                 !.asked = IF needs_content_generation(value)
                                           THEN Append(@, [purpose |-> "generate",
                                                           name |-> name])
                                           ELSE @],
                              Tail(args), dyn, gen)

----------------------------------------------------------------------------
\* execute_iteration_step: values it builds

\* extract_iterable: the list to iterate, or the failure
extract_iterable(value) ==
  LET fail == [ok |-> FALSE, array |-> <<>>]
      listOfDicts(f) == IsList(f.v) /\ \A n \in 1..Len(f.v.v) : IsDict(f.v.v[n])
      allHaveId(f) == \A n \in 1..Len(f.v.v) : Has(f.v.v[n].v, <<"id">>)
  IN IF IsList(value) THEN [ok |-> TRUE, array |-> value.v]
     ELSE IF IsDict(value)
          THEN LET cands == SelectSeq(value.v, listOfDicts)
               IN IF Len(cands) = 0 THEN fail
                  ELSE IF Len(cands) > 1 /\ \E n \in 1..Len(cands) : allHaveId(cands[n])
                       THEN [ok |-> TRUE,
                             array |-> cands[CHOOSE n \in 1..Len(cands) :
                                               /\ allHaveId(cands[n])
                                               /\ \A m \in 1..(n - 1) : ~allHaveId(cands[m])].v.v]
                       ELSE [ok |-> TRUE, array |-> cands[1].v.v]
          ELSE fail

\* Context keys whose list object store_result extends in place (extend, append);
\* every other key is bound to a new object each time it is written.  A key
\* "<method>_ids" is written by assignment, "<field>_ids" by extension.
MethodTokens == {"send_email", "list_emails", "read_email", "search_emails",
                 "test_connection", "list_files", "read_file", "generate",
                 "0", "1", "2", "3", "4", "5"}
InPlaceKey(key) ==
  /\ Len(key) >= 2
  /\ \/ key[Len(key)] \in {"_data", "_contents", "_results"}
     \/ key[Len(key)] = "_ids" /\ key[Len(key) - 1] \notin MethodTokens

\* str(item)
StrOf(item) == IF IsStr(item) THEN item.v ELSE <<"str(", item.t, ")">>

RECURSIVE ReplaceToken(_, _, _)
ReplaceToken(str, tok, by) ==
  IF str = <<>> THEN <<>>
  ELSE (IF Head(str) = tok THEN by ELSE <<Head(str)>>) \o ReplaceToken(Tail(str), tok, by)

\* iteration_args: "iterate_value" replaced by the element
Substitute(args, item) ==
  [n \in 1..Len(args) |->
     IF StrIs(args[n].v, <<"iterate_value">>) THEN KV(args[n].k, item)
     ELSE IF IsStr(args[n].v) /\ AnyToken(args[n].v.v, {"iterate_value"})
          THEN KV(args[n].k, S(ReplaceToken(args[n].v.v, "iterate_value", StrOf(item))))
          ELSE args[n]]

\* resolved_args of one element: "dynamic" values through resolve_parameter
RECURSIVE ResolveEach(_, _)
ResolveEach(acc, args) ==
  IF args = <<>> THEN acc
  ELSE LET r == resolve_parameter(acc.ctx, Head(args).k)
       IN IF StrIs(Head(args).v, <<"dynamic">>)
          THEN ResolveEach([ctx |-> r.ctx, resolved |-> Put(acc.resolved, Head(args).k, r.value)],
                           Tail(args))
          ELSE ResolveEach([acc EXCEPT !.resolved = Put(@, Head(args).k, Head(args).v)],
                           Tail(args))

IsSuccess(entry) == Get(entry.v, <<"success">>) = B(TRUE)

RECURSIVE ResultsOf(_)
ResultsOf(outcomes) ==
  IF outcomes = <<>> THEN <<>>
  ELSE (IF IsSuccess(Head(outcomes)) THEN <<Get(Head(outcomes).v, <<"result">>)>> ELSE <<>>)
       \o ResultsOf(Tail(outcomes))

\* "Completadas {success_count}/{len(iteration_array)} iteraciones"
Summary(done, total) ==
  S(<<"Completadas ", ToString(done), "/", ToString(total), " iteraciones">>)

IterationEntry(idx, step, tool, result) ==
  D(Update(<<KV(<<"step">>, I(idx + 1)), KV(<<"type">>, T("iteration")),
             KV(<<"method">>, MethodValue(step)), KV(<<"tool">>, T(tool))>>, result))

----------------------------------------------------------------------------
\* execute_method_sequence: one action per step of the plan, an Iteration step
\* being one action per element

NoEngineGhost == [attempts |-> <<>>]

Running == pc = "exec" /\ i < Len(sequence)
CurrentStep == sequence[i + 1]

\* step_tool_name
StepToolName ==
  IF tool_list = <<>> THEN "llm_placeholder"
  ELSE IF CurrentStep.tool # "" THEN CurrentStep.tool ELSE tool_list[1]

\* which branch of the loop body the current step takes
Dispatch ==
  IF ~Running THEN "none"
  ELSE IF tool_list = <<>> /\ CurrentStep.action # "llm" THEN "no_tool"
  ELSE IF TOOL_REGISTRY(StepToolName) = <<>> /\ StepToolName # "llm_placeholder"
       THEN "tool_not_found"
  ELSE IF CurrentStep.action = "llm" THEN "llm"
  ELSE IF CurrentStep.iterate THEN "iteration"
  ELSE "toolcall"

Emit(ev, e) == IF orch.sink THEN Append(ev, e) ELSE ev

\* await event_callback(type, ...) raises
SinkRaises(type) == orch.sink /\ orch.raises = type

\* the sink's error leaves execute_method_sequence from the head of the step
ExecutingSinkRaised ==
  /\ pc' = "returned" /\ ret' = EngineRaised("SinkError")
  /\ UNCHANGED <<ctx, i, results, events, llm_calls, invocations, iter, ghost>>

ExecutingEvent ==
  [type |-> "executing", step |-> i + 1, total |-> Len(sequence),
   method |-> IF CurrentStep.action = "llm" THEN <<"llm_processing">>
              ELSE IF CurrentStep.iterate
                   THEN (IF CurrentStep.method = <<>> THEN <<"unknown">>
                         ELSE CurrentStep.method) \o <<"_iteration">>
                   ELSE IF CurrentStep.method = <<>> THEN <<"unknown">>
                        ELSE CurrentStep.method,
   tool |-> StepToolName]

\* where the run is after a step: its results, position and return value
Goto(after) ==
  /\ results' = after.results
  /\ i' = after.i
  /\ pc' = after.pc
  /\ ret' = after.ret

\* one more entry in results, then the next step or the final return
Recorded(res, idx, total) == [results |-> res] @@ Advance(res, idx, total)

LookupError(tool) == S(<<"Tool '", tool, "' no encontrada">>)
StepFailure(idx, err) ==
  D(<<KV(<<"step">>, I(idx + 1)), KV(<<"success">>, B(FALSE)), KV(<<"error">>, err)>>)

\* no tool list and not an LLM step: the failure is recorded, the loop is left
\* and the function returns its final result
NoToolBreak ==
  /\ Dispatch = "no_tool"
  /\ Goto([results |-> Append(results, StepFailure(i, T("No se especificó herramienta"))),
           i |-> i, pc |-> "returned",
           ret |-> EngineSuccess(Append(results,
                                        StepFailure(i, T("No se especificó herramienta"))),
                                 Len(sequence))])
  /\ UNCHANGED <<orch, ctx, tool_list, sequence, iter, response, invocations,
                 llm_calls, events, ghost>>

\* the tool-lookup failure of a step, a variant that ends the run as a failure
ToolNotFoundAborts ==
  /\ Dispatch = "tool_not_found"
  /\ Goto([results |-> Append(results, StepFailure(i, LookupError(StepToolName))),
           i |-> i, pc |-> "returned",
           ret |-> EngineFailure(Append(results, StepFailure(i, LookupError(StepToolName))),
                                 LookupError(StepToolName), i)])
  /\ UNCHANGED <<orch, ctx, tool_list, sequence, iter, response, invocations,
                 llm_calls, events, ghost>>
\* the step's tool is not in the registry: the failure is recorded, next step
ToolNotFound ==
  /\ Dispatch = "tool_not_found"
  /\ Goto(Recorded(Append(results, StepFailure(i, LookupError(StepToolName))), i,
                   Len(sequence)))
  /\ UNCHANGED <<orch, ctx, tool_list, sequence, iter, response, invocations,
                 llm_calls, events, ghost>>

LlmEntry(idx, step, result) ==
  D(Update(<<KV(<<"step">>, I(idx + 1)), KV(<<"type">>, T("llm")), KV(<<"task">>, step.task)>>,
           result))

LlmStepDone(done) ==
  /\ ctx' = done.ctx
  /\ Goto(Recorded(Append(results, LlmEntry(i, CurrentStep, done.result)), i, Len(sequence)))

LlmStep ==
  /\ Dispatch = "llm"
  /\ IF SinkRaises("executing") THEN ExecutingSinkRaised
     ELSE /\ events' = Emit(events, ExecutingEvent)
          /\ llm_calls' = Append(llm_calls, BridgePrompt(ctx, CurrentStep))
          /\ \E reply \in BridgeReplies :
               LlmStepDone(execute_llm_step(ctx, CurrentStep, reply))
          /\ UNCHANGED <<iter, invocations, ghost>>
  /\ UNCHANGED <<orch, tool_list, sequence, response>>

----------------------------------------------------------------------------
\* A ToolCall step (lines 251-340), as the value it computes: how it ended
\* (status), the context, the LLM requests made, the call made, the result

Attempt(idx, elem, resolved, called) ==
  [step |-> idx + 1, elem |-> elem, resolved |-> resolved, called |-> called]
Call(idx, elem, tool, method, args) ==
  [step |-> idx + 1, elem |-> elem, tool |-> tool, method |-> method, args |-> args]

\* func(**filtered_args), store_result
ToolCallInvoke(step, tool, idx, o, c, asked, meta, injected, filtered) ==
  IF ~Binds(meta, filtered)
  THEN [status |-> "failed", ctx |-> c, asked |-> asked, calls |-> <<>>,
        attempts |-> <<Attempt(idx, -1, injected, FALSE)>>,
        result |-> NoneV, reason |-> "TypeError"]
  ELSE IF Raises(step.method, o)
       THEN [status |-> "failed", ctx |-> c, asked |-> asked,
             calls |-> <<Call(idx, -1, tool, step.method, filtered)>>,
             attempts |-> <<Attempt(idx, -1, injected, TRUE)>>,
             result |-> NoneV, reason |-> "raised"]
       ELSE [status |-> "ok",
             ctx |-> store_result(c, <<tool, ".">> \o step.method, Returned(step.method, o),
                                  meta.params),
             asked |-> asked,
             calls |-> <<Call(idx, -1, tool, step.method, filtered)>>,
             attempts |-> <<Attempt(idx, -1, injected, TRUE)>>,
             result |-> Returned(step.method, o), reason |-> ""]

\* user_id from the context when the method accepts it and the plan gave none
inject_user_id(meta, resolved, c) ==
  IF SeqHas(meta.params, USER_ID) /\ ~Has(resolved, USER_ID)
  THEN Put(resolved, USER_ID, Get(c.data, USER_ID))
  ELSE resolved

ToolCallFilter(step, tool, idx, o, c, asked, meta, injected) ==
  ToolCallInvoke(step, tool, idx, o, c, asked, meta, injected,
                 filter_valid_args(meta, injected))

\* the method lookup at the head of the try block
ToolCallLookup(step, tool, idx, o, asked, built) ==
  IF ~HasMethod(tool, step.method)
  THEN [status |-> "failed", ctx |-> built.ctx, asked |-> asked \o built.asked,
        calls |-> <<>>, attempts |-> <<Attempt(idx, -1, built.resolved, FALSE)>>,
        result |-> NoneV, reason |-> "ValueError"]
  ELSE ToolCallFilter(step, tool, idx, o, built.ctx, asked \o built.asked,
                      tool_get(tool, step.method),
                      inject_user_id(tool_get(tool, step.method), built.resolved, built.ctx))

\* after the LLM-assisted resolver: its error propagates, else the arguments are built
ToolCallBuild(step, tool, idx, gen, o, dyn) ==
  IF dyn.raised
  THEN [status |-> "raised", ctx |-> dyn.ctx, asked |-> dyn.asked, calls |-> <<>>,
        attempts |-> <<>>, result |-> NoneV, reason |-> "RuntimeError"]
  ELSE ToolCallLookup(step, tool, idx, o, dyn.asked,
                      BuildArgs([ctx |-> dyn.ctx, resolved |-> <<>>, asked |-> <<>>],
                                step.args, dyn.resolved, gen))

execute_tool_call(c, step, tool, idx, answer, gen, o) ==
  ToolCallBuild(step, tool, idx, gen, o,
                resolve_dynamic_arguments_with_llm(c, step.method, step.args, answer))

\* where the run is after the ToolCall step
ToolCallAfter(out, res, idx, step, tool, total) ==
  CASE out.status = "raised" ->
         [results |-> res, i |-> idx, pc |-> "returned", ret |-> EngineRaised(out.reason)]
    [] out.status = "ok" ->
         Recorded(Append(res, SuccessEntry(tool, MethodLabel(step), out.result)), idx, total)
    [] OTHER ->
         ToolCallFailed(res, idx, ErrorEntry(tool, MethodLabel(step), out.reason), total)

ToolCallDone(out) ==
  /\ ctx' = out.ctx
  /\ llm_calls' = llm_calls \o out.asked
  /\ invocations' = invocations \o out.calls
  /\ ghost' = [ghost EXCEPT !.attempts = @ \o out.attempts]
  /\ Goto(ToolCallAfter(out, results, i, CurrentStep, StepToolName, Len(sequence)))

\* the answers of the resolver's LLM that matter: none when it is not asked
Answers(c, args) ==
  IF Remaining(c, args) = <<>> THEN {NoAnswer}
  ELSE LlmResolverAnswers(Remaining(c, args), args)

\* the outcomes of the content generation that matter
Gens(args) ==
  IF \E n \in 1..Len(args) : needs_content_generation(args[n].v)
                               /\ ~StrIs(args[n].v, <<"dynamic">>)
  THEN GenOutcomes ELSE {"text"}

ToolCallStep ==
  /\ Dispatch = "toolcall"
  /\ IF SinkRaises("executing") THEN ExecutingSinkRaised
     ELSE /\ events' = Emit(events, ExecutingEvent)
          /\ \E answer \in Answers(ctx, CurrentStep.args), gen \in Gens(CurrentStep.args),
                o \in 0..Len(ToolOutcomes(CurrentStep.method)) :
               ToolCallDone(execute_tool_call(ctx, CurrentStep, StepToolName, i,
                                              answer, gen, o))
          /\ UNCHANGED iter
  /\ UNCHANGED <<orch, tool_list, sequence, response>>

----------------------------------------------------------------------------
\* An Iteration step (execute_iteration_step)

\* the list object the running loop iterates: the context's own list when the
\* source resolved to one that store_result extends in place
IterArray ==
  IF iter.alias # <<>> THEN Get(ctx.data, iter.alias).v ELSE iter.array

SourceError(source) ==
  S(<<"No se encontró array válido en '">> \o source \o <<"' para iterar">>)

\* lines 92-103: the array to iterate, or how the step ends without a loop
IterationStart(step, tool, r, ext) ==
  IF ~ext.ok THEN [kind |-> "no_array", ctx |-> r.ctx, iter |-> NoIter]
  ELSE IF ~HasMethod(tool, step.method)
       THEN [kind |-> "raised", ctx |-> r.ctx, iter |-> NoIter]
       ELSE [kind |-> "loop", ctx |-> r.ctx,
             iter |-> [on |-> TRUE, array |-> ext.array,
                       alias |-> IF IsList(r.value) /\ InPlaceKey(r.key) THEN r.key ELSE <<>>,
                       j |-> 0, outcomes |-> <<>>, initial |-> Len(ext.array)]]

IterationResolved(step, tool, r) == IterationStart(step, tool, r, extract_iterable(r.value))

IterationBegun(start) ==
  /\ ctx' = start.ctx
  /\ iter' = start.iter
  /\ Goto(CASE start.kind = "no_array" ->
                 Recorded(Append(results,
                                 IterationEntry(i, CurrentStep, StepToolName,
                                                <<KV(<<"success">>, B(FALSE)),
                                                  KV(<<"error">>,
                                                     SourceError(CurrentStep.source))>>)),
                          i, Len(sequence))
            [] start.kind = "raised" ->
                 [results |-> results, i |-> i, pc |-> "returned",
                  ret |-> EngineRaised("AttributeError")]
            [] OTHER -> [results |-> results, i |-> i, pc |-> "iter", ret |-> ret])

\* start of execute_iteration_step, up to the first element
IterationBegin ==
  /\ Dispatch = "iteration"
  /\ IF SinkRaises("executing") THEN ExecutingSinkRaised
     ELSE /\ events' = Emit(events, ExecutingEvent)
          /\ IterationBegun(IterationResolved(CurrentStep, StepToolName,
                                              resolve_parameter(ctx, CurrentStep.source)))
          /\ UNCHANGED <<invocations, llm_calls, ghost>>
  /\ UNCHANGED <<orch, tool_list, sequence, response>>

ElementError(j, reason) == S(<<"Error en iteración ", ToString(j), ": ", reason>>)

\* the body of the loop for one element, as the value it computes
ElementInvoke(step, tool, idx, j, item, o, c, resolved, filtered, called) ==
  IF called /\ ~Raises(step.method, o)
  THEN [ctx |-> store_result(c, step.method \o <<"_", ToString(j)>>,
                             Returned(step.method, o), <<>>),
        calls |-> <<Call(idx, j, tool, step.method, filtered)>>,
        attempts |-> <<Attempt(idx, j, resolved, TRUE)>>,
        outcome |-> D(<<KV(<<"index">>, I(j)), KV(<<"item">>, item),
                        KV(<<"result">>, Returned(step.method, o)),
                        KV(<<"success">>, B(TRUE))>>)]
  ELSE [ctx |-> c,
        calls |-> IF called THEN <<Call(idx, j, tool, step.method, filtered)>> ELSE <<>>,
        attempts |-> <<Attempt(idx, j, resolved, called)>>,
        outcome |-> D(<<KV(<<"index">>, I(j)), KV(<<"item">>, item),
                        KV(<<"error">>,
                           ElementError(j, IF called THEN "raised" ELSE "TypeError")),
                        KV(<<"success">>, B(FALSE))>>)]

ElementFilter(step, tool, idx, j, item, o, meta, built, filtered) ==
  ElementInvoke(step, tool, idx, j, item, o, built.ctx, built.resolved, filtered,
                Binds(meta, filtered))

ElementBuilt(step, tool, idx, j, item, o, meta, built) ==
  ElementFilter(step, tool, idx, j, item, o, meta, built,
                filter_valid_args(meta, built.resolved))

execute_element(c, step, tool, idx, j, item, o) ==
  ElementBuilt(step, tool, idx, j, item, o, tool_get(tool, step.method),
               ResolveEach([ctx |-> c, resolved |-> <<>>], Substitute(step.args, item)))

ElementDone(out) ==
  /\ ctx' = out.ctx
  /\ iter' = [iter EXCEPT !.j = @ + 1, !.outcomes = Append(@, out.outcome)]
  /\ invocations' = invocations \o out.calls
  /\ ghost' = [ghost EXCEPT !.attempts = @ \o out.attempts]

\* one pass of the loop over the elements
IterationElement ==
  /\ pc = "iter" /\ iter.j < Len(IterArray) /\ iter.j < MaxIterations
  /\ \E o \in 0..Len(ToolOutcomes(CurrentStep.method)) :
       ElementDone(execute_element(ctx, CurrentStep, StepToolName, i, iter.j,
                                   IterArray[iter.j + 1], o))
  /\ UNCHANGED <<pc, orch, tool_list, sequence, i, results, ret, response, llm_calls, events>>

\* after the loop: the consolidated entries, the summary, next step
IterationEnd ==
  /\ pc = "iter" /\ iter.j >= Len(IterArray)
  /\ ctx' = [ctx EXCEPT !.data =
               Put(Put(@, CurrentStep.method \o <<"_iterations">>, L(iter.outcomes)),
                   CurrentStep.method \o <<"_iteration_results">>,
                   L(ResultsOf(iter.outcomes)))]
  /\ Goto(Recorded(Append(results,
                          IterationEntry(i, CurrentStep, StepToolName,
                            <<KV(<<"success">>, B(TRUE)),
                              KV(<<"result">>, Summary(Len(ResultsOf(iter.outcomes)),
                                                       Len(IterArray))),
                              KV(<<"iteration_results">>, L(iter.outcomes))>>)),
                   i, Len(sequence)))
  /\ iter' = NoIter
  /\ UNCHANGED <<orch, tool_list, sequence, response, invocations, llm_calls, events, ghost>>

EngineStep ==
  \/ NoToolBreak \/ ToolNotFound \/ LlmStep \/ ToolCallStep
  \/ IterationBegin \/ IterationElement \/ IterationEnd

\* a fresh context as the caller of execute_method_sequence prepares it
RunContext(user_id) ==
  reset_resolution_counters(
    [NewContext EXCEPT !.data = IF Truthy(user_id) THEN <<KV(USER_ID, user_id)>> ELSE <<>>])

\* Engine-level specification: execute_method_sequence called with a plan, a
\* tool list and a fresh context.
Init ==
  /\ pc = "exec"
  /\ \E uid \in {NoneV, UserId} :
       /\ orch = [NoOrch EXCEPT !.user_id = uid, !.sink = TRUE]
       /\ ctx = RunContext(uid)
  /\ tool_list \in {<<>>, <<"gmail">>}
  /\ sequence \in Plans(MaxSteps) \cup ExtraPlans
  /\ i = 0 /\ results = <<>> /\ iter = NoIter /\ ret = NoneV /\ response = NoneV
  /\ invocations = <<>> /\ llm_calls = <<>> /\ events = <<>>
  /\ ghost = NoEngineGhost

Next == EngineStep

Spec == Init /\ [][Next]_vars

----------------------------------------------------------------------------
\* Properties of execute_method_sequence

IsToolCallStep(step) == step.action # "llm" /\ ~step.iterate

\* the tool name step n of the plan is dispatched to
ToolNameOf(n) == IF sequence[n].tool # "" THEN sequence[n].tool ELSE tool_list[1]

\* step n names a tool that is not in the registry
UnknownTool(n) == tool_list # <<>> /\ TOOL_REGISTRY(ToolNameOf(n)) = <<>>

\* the entry recorded by the except branch of a ToolCall step
ExecutionFailure(entry) == ~Has(entry.v, <<"step">>) /\ ~IsSuccess(entry)

ReturnedFailure ==
  pc = "returned" /\ ret.t = "returned" /\ Get(ret.v.v, <<"success">>) = B(FALSE)

\* C1: a ToolCall step whose execution fails is the last entry of results and
\* ends the run; the run then returns a failure whose results are the k entries
\* recorded so far (every ToolCall step before k a success, entry k the failure),
\* whose stopping index is k, and no method of a step after k has been invoked.
C1_AbortAtFailedStep ==
  /\ \A n \in 1..Len(results) :
       ExecutionFailure(results[n]) => n = Len(results) /\ ReturnedFailure
  /\ ReturnedFailure =>
       /\ Len(results) = i + 1
       /\ ExecutionFailure(results[i + 1])
       /\ Get(ret.v.v, <<"results">>) = L(results)
       /\ Get(ret.v.v, <<"stopped_at_step">>) = I(i + 1)
       /\ \A n \in 1..i :
            (IsToolCallStep(sequence[n]) /\ ~UnknownTool(n)) => IsSuccess(results[n])
       /\ \A n \in 1..Len(invocations) : invocations[n].step <= i + 1

\* C1 witness: a plan of three ToolCall steps stopped at its second step, the
\* first one having succeeded.
C1_Witness ==
  /\ ReturnedFailure
  /\ Len(sequence) = 3 /\ \A n \in 1..3 : IsToolCallStep(sequence[n])
  /\ i = 1 /\ Len(results) = 2 /\ IsSuccess(results[1])
  /\ \E n \in 1..Len(invocations) : invocations[n].step = 2

\* C2 as stated: an Iteration step whose resolved list has M elements invokes
\* the method once per element of that list, in list order, and records one
\* outcome per element: never more than M passes of the loop, and the n-th
\* outcome is about the n-th element of the resolved list.
C2_OncePerElement ==
  pc = "iter" =>
    /\ Len(iter.outcomes) = iter.j
    /\ iter.j <= iter.initial
    /\ \A n \in 1..Len(iter.outcomes) :
         Get(iter.outcomes[n].v, <<"item">>) = iter.array[n]
    /\ \A n \in 1..Len(invocations) :
         invocations[n].step = i + 1 => invocations[n].elem < iter.initial

FirstListedId == Get(Get(ListEmailsResult.v, <<"message", "s">>).v[1].v, <<"id">>)

\* step n of the plan has been processed
Processed(n) == i >= n \/ (i = n - 1 /\ pc = "returned")

\* C6 as stated: in the plan [list (literal query), read (id: "dynamic"), llm
\* bridge], once the list step returned its identifiers and the read step has
\* been processed, the read method has been invoked with id equal to the first
\* identifier of the list.
C6_ReadGetsFirstId ==
  (/\ sequence = <<StepListEmails, StepReadById, StepLlm>>
   /\ tool_list = <<"gmail">>
   /\ Processed(2)
   /\ Get(results[1].v, <<"result">>) = Str200(ListEmailsResult))
    => \E n \in 1..Len(invocations) :
         /\ invocations[n].step = 2
         /\ Get(invocations[n].args, <<"id">>) = FirstListedId

\* the content-bearing text of a stored result: the content field, else body,
\* else text, else message, or the string itself
ContentBearingText(result) ==
  IF IsStr(result) THEN <<result>>
  ELSE IF ~IsDict(result) THEN <<>>
  ELSE IF Has(result.v, <<"content">>) THEN <<Get(result.v, <<"content">>)>>
  ELSE IF Has(result.v, <<"body">>) THEN <<Get(result.v, <<"body">>)>>
  ELSE IF Has(result.v, <<"text">>) THEN <<Get(result.v, <<"text">>)>>
  ELSE IF Has(result.v, <<"message">>) THEN <<Get(result.v, <<"message">>)>>
  ELSE <<>>

RECURSIVE TextsOf(_)
TextsOf(method_results) ==
  IF method_results = <<>> THEN <<>>
  ELSE ContentBearingText(Head(method_results).result) \o TextsOf(Tail(method_results))

SectionTexts(digest) == [n \in 1..Len(digest) |-> digest[n].content]

\* the step before the current one was a read that returned the mail
AfterRead ==
  /\ i >= 1 /\ Len(results) = i
  /\ sequence[i].method = <<"read_email">> /\ IsToolCallStep(sequence[i])
  /\ Get(results[i].v, <<"result">>) = Str200(ReadEmailResult)

\* C7: when an LlmBridge step executes, the prompt it sends carries, in the
\* order the results were stored, the content-bearing text of every result in
\* the context; after a read step its last section is the content the read returned.
C7_DigestCarriesStoredResults ==
  [][LlmStep =>
       /\ llm_calls'[Len(llm_calls')].purpose = "bridge"
       /\ SectionTexts(llm_calls'[Len(llm_calls')].digest) = TextsOf(ctx.method_results)
       /\ AfterRead =>
            /\ llm_calls'[Len(llm_calls')].digest # <<>>
            /\ llm_calls'[Len(llm_calls')].digest[Len(llm_calls'[Len(llm_calls')].digest)].content
                 = Get(ReadEmailResult.v, <<"body">>)]_vars

\* C7 witness: a bridge prompt sent right after a list and a read, with both texts.
C7_Witness ==
  /\ Len(sequence) = 3 /\ Len(results) = 3
  /\ sequence[2] = StepReadEmail /\ sequence[3] = StepLlm
  /\ Get(results[2].v, <<"result">>) = Str200(ReadEmailResult)
  /\ \E n \in 1..Len(llm_calls) :
       /\ llm_calls[n].purpose = "bridge"
       /\ SectionTexts(llm_calls[n].digest)
            = <<Get(ListEmailsResult.v, <<"message">>), Get(ReadEmailResult.v, <<"body">>)>>

\* C10: a step whose tool is not in the registry leaves exactly its one failed
\* entry in results and no invocation; the run goes on, so that a run that
\* returns without an execution failure has one entry per step of the plan and
\* reports success.
C10_ToolNotFoundContinues ==
  /\ \A n \in 1..Len(results) :
       UnknownTool(n) =>
         /\ results[n] = StepFailure(n - 1, LookupError(ToolNameOf(n)))
         /\ \A m \in 1..Len(invocations) : invocations[m].step # n
  /\ (/\ pc = "returned" /\ ret.t = "returned"
      /\ \E n \in 1..Len(results) : UnknownTool(n)
      /\ \A n \in 1..Len(results) : ~ExecutionFailure(results[n]))
       => /\ Len(results) = Len(sequence)
          /\ Get(ret.v.v, <<"success">>) = B(TRUE)

\* C10 witness: a plan of three steps whose first tool is unknown, the later
\* steps processed and the second one's method invoked.
C10_Witness ==
  /\ pc = "returned" /\ ret.t = "returned"
  /\ Len(sequence) = 3 /\ Len(results) = 3
  /\ UnknownTool(1) /\ ~IsSuccess(results[1])
  /\ IsSuccess(results[2])
  /\ Get(ret.v.v, <<"success">>) = B(TRUE)
  /\ \E n \in 1..Len(invocations) : invocations[n].step = 2

----------------------------------------------------------------------------
\* plan_method_sequence and select_simple_method

MaxOrchSteps == 2

\* {method['name'] for method in methods}, the methods being those of every action
MethodNames(actions) ==
  UNION { {TOOL_REGISTRY(actions[n])[m].name : m \in 1..Len(TOOL_REGISTRY(actions[n]))}
          : n \in 1..Len(actions) }

\* what the planner's LLM can answer: the call raises, text that is not JSON,
\* JSON that is not an object, an object without a sequence, an object with one
PlannerReplies ==
  {[kind |-> k, sequence |-> <<>>] : k \in {"raise", "not_json", "not_object", "object"}}
  \cup {[kind |-> "object", sequence |-> p] : p \in Plans(MaxOrchSteps) \cup ExtraPlans}

\* the validation loop: a ToolCall step names a method that is not a valid one
Rejected(seq, valid) ==
  \E n \in 1..Len(seq) :
    /\ seq[n].action # "llm" /\ ~seq[n].iterate
    /\ seq[n].method # <<>> /\ seq[n].method \notin valid

\* a variant of plan_method_sequence without the except clause: the decode
\* error of a reply that is not JSON escapes
PlanDecodeErrorEscapes(valid, reply) ==
  CASE reply.kind = "raise" -> [raised |-> TRUE, error |-> "LLMError", sequence |-> <<>>]
    [] reply.kind = "not_json" ->
         [raised |-> TRUE, error |-> "JSONDecodeError", sequence |-> <<>>]
    [] reply.kind = "not_object" ->
         [raised |-> TRUE, error |-> "AttributeError", sequence |-> <<>>]
    [] OTHER -> [raised |-> FALSE, error |-> "",
                 sequence |-> IF Rejected(reply.sequence, valid) THEN <<>>
                              ELSE reply.sequence]
\* plan_method_sequence: the sequence returned, or the error that escapes it
plan_method_sequence(valid, reply) ==
  CASE reply.kind = "raise" -> [raised |-> TRUE, error |-> "LLMError", sequence |-> <<>>]
    [] reply.kind = "not_json" -> [raised |-> FALSE, error |-> "", sequence |-> <<>>]
    [] reply.kind = "not_object" ->
         [raised |-> TRUE, error |-> "AttributeError", sequence |-> <<>>]
    [] OTHER -> [raised |-> FALSE, error |-> "",
                 sequence |-> IF Rejected(reply.sequence, valid) THEN <<>>
                              ELSE reply.sequence]

TEXT_HTML == S(<<"text", "/", "html">>)
TEXT_PLAIN == S(<<"text", "/", "plain">>)

\* what the LLM can answer the simple selection
SimpleReplies ==
  {[kind |-> k, method |-> <<>>, has_args |-> FALSE, args |-> <<>>]
     : k \in {"raise", "not_json", "not_object"}}
  \cup {[kind |-> "object", method |-> <<"list_emails">>, has_args |-> h,
         args |-> <<KV(<<"query">>, T("X"))>>] : h \in BOOLEAN}
  \cup {[kind |-> "object", method |-> m, has_args |-> TRUE,
         args |-> <<KV(<<"to">>, T("a@b")), KV(<<"subject">>, T("Hi")),
                    KV(<<"body">>, T("hello")), KV(<<"html">>, B(h))>>]
          : m \in {<<"send_email">>, <<"read_email">>, <<"no_such">>, <<>>}, h \in BOOLEAN}
  \cup {[kind |-> "object", method |-> <<"send_email">>, has_args |-> TRUE, args |-> a]
          : a \in {<<KV(<<"to">>, T("a@b")), KV(<<"content_type">>, TEXT_PLAIN),
                     KV(<<"html">>, B(TRUE))>>,
                   <<KV(<<"to">>, T("a@b")), KV(<<"html">>, B(TRUE)),
                     KV(<<"content_type">>, TEXT_PLAIN)>>}}

\* the loop over args, filling the dict filtered_args: html of send_email
\* becomes content_type or is dropped
RECURSIVE FilterHtmlInto(_, _, _)
FilterHtmlInto(filtered, args, method) ==
  IF args = <<>> THEN filtered
  ELSE FilterHtmlInto(
         IF Head(args).k = <<"html">> /\ method = <<"send_email">>
         THEN IF Truthy(Head(args).v)
              THEN Put(filtered, <<"content_type">>, TEXT_HTML)
              ELSE filtered
         ELSE Put(filtered, Head(args).k, Head(args).v),
         Tail(args), method)

\* a variant of the loop that returns the selection's arguments as they are
FilterHtmlKeepsFlag(args, method) == args

FilterHtml(args, method) == FilterHtmlInto(<<>>, args, method)

\* select_simple_method: the selection, or the error it reports
select_simple_method(valid, reply) ==
  IF reply.kind # "object" THEN [error |-> TRUE, step |-> NoneV]
  ELSE IF reply.method \notin valid \/ ~reply.has_args THEN [error |-> TRUE, step |-> NoneV]
  ELSE [error |-> FALSE,
        step |-> ToolCall("", reply.method, FilterHtml(reply.args, reply.method))]

\* the derived keys that accumulate: identifier lists, item lists, contents
\* and per-method result histories
Accumulating(key) ==
  key = <<"ids">> \/ key[Len(key)] \in {"_ids", "_data", "_contents", "_results"}

IsPrefix(a, b) == Len(a) <= Len(b) /\ SubSeq(b, 1, Len(a)) = a

\* C18 as stated: a store_result call leaves every list-valued accumulating
\* key of the context with a value that its value before the call is a prefix
\* of; no call replaces or shortens such a list.
C18_ListKeysOnlyGrow ==
  [][\A n \in 1..Len(ctx.data) :
       (Accumulating(ctx.data[n].k) /\ IsList(ctx.data[n].v))
         => /\ Has(ctx'.data, ctx.data[n].k)
            /\ IsList(Get(ctx'.data, ctx.data[n].k))
            /\ IsPrefix(ctx.data[n].v.v, Get(ctx'.data, ctx.data[n].k).v)]_vars

\* the step is a resolution of name
ResolutionOf(name) ==
  /\ ghost'.resolves = ghost.resolves + 1
  /\ ghost'.last.op \in {"resolve_parameter", "resolve_id_parameter"}
  /\ ghost'.last.name = name

\* C19: the context of a run starts with no counter; from one operation to
\* the next no counter decreases, and the counter of a name changes (by one)
\* only in a resolution of that name that finds a non-empty identifier list:
\* a store, a resolution of another name, a resolution by the exact key, by a
\* lone scalar or by the last_id fallback leave every counter as it was.
C19_CountersAdvanceOnListsOnly ==
  /\ ctx.resolution_counters = <<>>
  /\ [][\A name \in ResolveNames \cup {ctx.resolution_counters[n].k
                                         : n \in 1..Len(ctx.resolution_counters)} :
          /\ Counter(ctx', name) >= Counter(ctx, name)
          /\ Counter(ctx', name) # Counter(ctx, name)
               => /\ Counter(ctx', name) = Counter(ctx, name) + 1
                  /\ ResolutionOf(name)
                  /\ IsList(IdListFor(ctx.data, name))
                  /\ IdListFor(ctx.data, name).v # <<>>]_vars

\* C19 witness: of three resolutions of message_id, one found no identifier
\* list and left the counters as they were, two walked a stored list: the
\* counter of message_id is 2.
C19_Witness ==
  /\ ghost.last.op = "resolve_id_parameter"
  /\ ghost.last.name = <<"message", "_id">>
  /\ IsList(ghost.last.ids)
  /\ Count(ghost, <<"message", "_id">>) = 3
  /\ Counter(ctx, <<"message", "_id">>) = 2

----------------------------------------------------------------------------
\* Further properties of execute_method_sequence

\* step n names a method that its (registered) tool does not have
MissingMethod(n) ==
  /\ tool_list # <<>> /\ ~UnknownTool(n)
  /\ sequence[n].action # "llm" /\ sequence[n].method # <<>>
  /\ ~HasMethod(ToolNameOf(n), sequence[n].method)

\* C11 as stated: in a plan of two or more steps, a step that names a method
\* its registered tool does not have leaves a failed entry in results and the
\* run goes on with the next step: the run never ends at that step.
C11_MissingMethodContinues ==
  \A n \in 1..Len(sequence) :
    (Len(sequence) >= 2 /\ MissingMethod(n) /\ Processed(n))
      => i >= n /\ Len(results) >= n /\ ~IsSuccess(results[n])

\* the plan marks parameter name of step n as dynamic
MarkedDynamic(n, name) ==
  Has(sequence[n].args, name) /\ StrIs(Get(sequence[n].args, name), <<"dynamic">>)

\* the arguments built for the call a of a step hold no value for name
Unresolved(a, name) == Has(a.resolved, name) /\ IsNone(Get(a.resolved, name))

\* C14: a parameter marked "dynamic" that neither the LLM pass nor the context
\* resolver gave a value to is not among the arguments of the invocation made
\* for that step (or element), and no invocation of a ToolCall or Iteration
\* step passes an argument whose value is None or the string "dynamic".
C14_UnresolvedIsOmitted ==
  /\ \A n \in 1..Len(invocations) : \A m \in 1..Len(invocations[n].args) :
        /\ ~IsNone(invocations[n].args[m].v)
        /\ ~StrIs(invocations[n].args[m].v, <<"dynamic">>)
  /\ \A k \in 1..Len(ghost.attempts) : \A n \in 1..Len(invocations) :
        (invocations[n].step = ghost.attempts[k].step
           /\ invocations[n].elem = ghost.attempts[k].elem)
          => \A m \in 1..Len(ghost.attempts[k].resolved) :
               IsNone(ghost.attempts[k].resolved[m].v)
                 => ~Has(invocations[n].args, ghost.attempts[k].resolved[m].k)

\* C14 witness: a method was invoked for a step whose dynamic parameter stayed
\* unresolved, and the invocation does not carry that parameter.
C14_Witness ==
  \E k \in 1..Len(ghost.attempts) : \E n \in 1..Len(invocations) :
    /\ invocations[n].step = ghost.attempts[k].step
    /\ invocations[n].elem = ghost.attempts[k].elem
    /\ ghost.attempts[k].called
    /\ \E name \in {<<"query">>, <<"subject">>, USER_ID} :
         /\ MarkedDynamic(ghost.attempts[k].step, name)
         /\ Unresolved(ghost.attempts[k], name)
         /\ ~Has(invocations[n].args, name)

\* the answer is a JSON object whose keys are all among the requested names
KeyedByRequested(answer, remaining) ==
  /\ answer.kind = "object"
  /\ \A m \in 1..Len(answer.obj) : SeqHas(remaining, answer.obj[m].k)

\* C15 as stated: when the resolver of a ToolCall step asks the LLM, it raises
\* exactly when the call fails or the answer is not a JSON object whose keys
\* all belong to the requested names (an object that lacks some of the
\* requested names is accepted).
C15_RaisesUnlessKeyedByRequested ==
  (Dispatch = "toolcall" /\ Remaining(ctx, CurrentStep.args) # <<>>)
    => \A answer \in Answers(ctx, CurrentStep.args) :
         resolve_dynamic_arguments_with_llm(ctx, CurrentStep.method,
                                            CurrentStep.args, answer).raised
           <=> ~KeyedByRequested(answer, Remaining(ctx, CurrentStep.args))

\* the value is, as a whole, one of the generation sentinels (in any case)
Sentinels == {"dynamic", "auto", "generate", "dynamic_summary", "auto_summary",
              "generate_content", "create_content"}
IsSentinel(value) ==
  IsStr(value) /\ Len(value.v) = 1 /\ Lower(value.v)[1] \in Sentinels

\* C16 as stated: for every argument of a ToolCall step whose value is a
\* string other than the sentinels, generate_content_if_needed makes no LLM
\* call and returns the value unchanged, whatever the LLM would answer.
C16_OnlySentinelsGenerate ==
  Dispatch = "toolcall"
    => \A m \in 1..Len(CurrentStep.args) :
         (IsStr(CurrentStep.args[m].v) /\ ~IsSentinel(CurrentStep.args[m].v))
           => /\ ~needs_content_generation(CurrentStep.args[m].v)
              /\ \A gen \in GenOutcomes :
                   generate_content_if_needed(CurrentStep.args[m].k,
                                              CurrentStep.args[m].v, gen)
                     = CurrentStep.args[m].v

----------------------------------------------------------------------------
\* orchestrator: one action per call of a collaborator it awaits

ActionLists == {<<>>, <<"gmail">>, <<"gmail", "LocalFiles">>, <<"nope">>}
TaskTypes == {"simple", "complex", "multi_tool", "conversation", "agent_help", "other"}

\* what the classifier's LLM can answer
ClassifierReplies ==
  {[kind |-> k, actions |-> <<>>, type |-> ""] : k \in {"raise", "not_json", "not_object"}}
  \cup {[kind |-> "object", actions |-> a, type |-> ty] : a \in ActionLists, ty \in TaskTypes}

Failure(message, error, data) ==
  [t |-> "returned",
   v |-> D(<<KV(<<"success">>, B(FALSE)), KV(<<"message">>, message),
             KV(<<"error">>, error)>> \o data)]
Success(message, data) ==
  [t |-> "returned",
   v |-> D(<<KV(<<"success">>, B(TRUE)), KV(<<"message">>, message),
             KV(<<"data">>, data), KV(<<"error">>, NoneV)>>)]
Escaped(err) == [t |-> "raised", v |-> err]

Missing(actions) == \E n \in 1..Len(actions) : ~SeqHas(list_tools, actions[n])

\* the tools of the request the connection probe calls test_connection on
Probed(actions) ==
  SelectSeq(actions, LAMBDA a : a \in {"gmail", "drive"}
                                  /\ HasMethod(a, <<"test_connection">>))

\* the orchestrator after the classifier answered, up to its next awaited call
Classified(reply) ==
  CASE reply.kind = "not_json" ->
         [pc |-> "done", response |-> Failure(NoneV, T("[ORCH] Decisión inválida"), <<>>)]
    [] reply.kind = "not_object" ->
         [pc |-> "done", response |-> Escaped("AttributeError")]
    [] reply.type \in {"agent_help", "conversation"} -> [pc |-> "chat", response |-> NoneV]
    [] Missing(reply.actions) ->
         [pc |-> "done",
          response |-> Failure(NoneV, T("[ORCH] Herramientas no disponibles"), <<>>)]
    [] reply.actions # <<>> /\ Truthy(orch.user_id) /\ Probed(reply.actions) # <<>> ->
         [pc |-> "probe", response |-> NoneV]
    [] OTHER -> [pc |-> "plan", response |-> NoneV]

EngineIdle == UNCHANGED <<ctx, tool_list, sequence, i, results, iter, ret, ghost>>

\* a call of the LLM by the orchestrator or planner, with the kind of its answer
Asked(purpose, kind) == [purpose |-> purpose, answered |-> kind]

\* lines 64-167: the classifier call and the decision
Classify ==
  /\ pc = "classify"
  /\ \E reply \in ClassifierReplies :
       IF reply.kind = "raise"
       THEN /\ response' = Escaped("LLMError") /\ pc' = "done"
            /\ llm_calls' = Append(llm_calls, Asked("classify", reply.kind))
            /\ UNCHANGED <<orch, events>>
       ELSE IF SinkRaises("analyzing")
       THEN /\ response' = Escaped("SinkError") /\ pc' = "done"
            /\ llm_calls' = Append(llm_calls, Asked("classify", reply.kind))
            /\ UNCHANGED <<orch, events>>
       ELSE /\ events' = Emit(events, [type |-> "analyzing"])
            /\ llm_calls' = Append(llm_calls, Asked("classify", reply.kind))
            /\ orch' = IF reply.kind = "object"
                       THEN [orch EXCEPT !.actions = reply.actions,
                                         !.task_type = T(reply.type)]
                       ELSE orch
            /\ pc' = Classified(reply).pc
            /\ response' = Classified(reply).response
  /\ EngineIdle
  /\ UNCHANGED invocations

\* lines 99-157: the reply to a help request or to conversation
Chat ==
  /\ pc = "chat"
  /\ \E reply \in {"text", "raise"} :
       /\ response' = IF reply = "raise" THEN Escaped("LLMError")
                      ELSE Success(T("R1"),
                                   IF orch.task_type = T("agent_help")
                                   THEN D(<<KV(<<"type">>, T("agent_help"))>>)
                                   ELSE D(<<KV(<<"tools_used">>, L(<<>>))>>))
       /\ llm_calls' = Append(llm_calls, Asked("chat", reply))
  /\ pc' = "done"
  /\ EngineIdle
  /\ UNCHANGED <<orch, invocations, events>>

\* test_connection(user_id=user_id) of every probed tool, in order
ProbeCalls(tools, user_id) ==
  [n \in 1..Len(tools) |->
     Call(-1, -1, tools[n], <<"test_connection">>, <<KV(USER_ID, user_id)>>)]

\* lines 171-214: the connection probe; a tool whose probe fails or raises is
\* reported as not connected
Probe ==
  /\ pc = "probe"
  /\ invocations' = invocations \o ProbeCalls(Probed(orch.actions), orch.user_id)
  /\ \E connected \in BOOLEAN :
       IF connected
       THEN pc' = "plan" /\ response' = response
       ELSE /\ pc' = "done"
            /\ response' = Failure(T("Necesito acceso"), T("tools_not_connected"),
                                   <<KV(<<"data">>, D(<<KV(<<"type">>, T("oauth_required"))>>))>>)
  /\ EngineIdle
  /\ UNCHANGED <<orch, llm_calls, events>>

\* the run the orchestrator starts: a new context, the actions as tool list
StartRun(seq) ==
  /\ ctx' = RunContext(orch.user_id)
  /\ tool_list' = orch.actions
  /\ sequence' = seq
  /\ i' = 0 /\ results' = <<>> /\ iter' = NoIter /\ ret' = NoneV
  /\ ghost' = NoEngineGhost
  /\ pc' = "exec"
  /\ response' = response

NoRun(resp) ==
  /\ response' = resp
  /\ pc' = "done"
  /\ EngineIdle

RECURSIVE PlannedNames(_)
PlannedNames(seq) ==
  IF seq = <<>> THEN <<>>
  ELSE (IF Head(seq).method # <<>> THEN <<Head(seq).method>>
        ELSE IF Head(seq).action = "llm" THEN <<<<"llm_processing">>>> ELSE <<>>)
       \o PlannedNames(Tail(seq))

PlanningEvent(seq) == [type |-> "planning", steps |-> PlannedNames(seq), total |-> Len(seq)]

\* lines 278-289: the simple selection
PlanSimple ==
  /\ pc = "plan" /\ orch.task_type = T("simple")
  /\ \E reply \in SimpleReplies :
       /\ llm_calls' = Append(llm_calls, Asked("select", reply.kind))
       /\ IF select_simple_method(MethodNames(orch.actions), reply).error
          THEN NoRun(Failure(NoneV, T("[ORCH] Error en selección simple"), <<>>))
          ELSE StartRun(<<select_simple_method(MethodNames(orch.actions), reply).step>>)
  /\ UNCHANGED <<orch, invocations, events>>

Planned(plan) ==
  IF plan.raised THEN NoRun(Escaped(plan.error)) /\ events' = events
  ELSE IF plan.sequence = <<>>
       THEN /\ NoRun(Failure(NoneV, T("[ORCH] No se pudo generar secuencia de métodos"), <<>>))
            /\ events' = events
       ELSE IF SinkRaises("planning")
       THEN NoRun(Escaped("SinkError")) /\ events' = events
       ELSE /\ StartRun(plan.sequence)
            /\ events' = Emit(events, PlanningEvent(plan.sequence))

\* lines 291-317: the planner
PlanSequence ==
  /\ pc = "plan" /\ orch.task_type \in {T("complex"), T("multi_tool")}
  /\ \E reply \in PlannerReplies :
       /\ llm_calls' = Append(llm_calls, Asked("plan", reply.kind))
       /\ Planned(plan_method_sequence(MethodNames(orch.actions), reply))
  /\ UNCHANGED <<orch, invocations>>

\* any other task type: no sequence is bound when line 331 reads it
PlanNothing ==
  /\ pc = "plan" /\ orch.task_type \notin {T("simple"), T("complex"), T("multi_tool")}
  /\ NoRun(Escaped("UnboundLocalError"))
  /\ UNCHANGED <<orch, invocations, llm_calls, events>>

\* the last entry of results that succeeded, None when there is none
LastSuccessful(res) ==
  IF \E n \in 1..Len(res) : IsSuccess(res[n])
  THEN res[CHOOSE n \in 1..Len(res) :
             IsSuccess(res[n]) /\ \A m \in (n + 1)..Len(res) : ~IsSuccess(res[m])]
  ELSE NoneV

\* method_name and context_key for the response message (lines 369-396)
MessageSource(entry) ==
  IF Get(entry.v, <<"type">>) = T("llm")
  THEN [name |-> <<"llm_processing">>, key |-> LLM_GENERATE \o <<"_content">>]
  ELSE IF Has(entry.v, <<"method">>)
       THEN [name |-> StrOf(Get(entry.v, <<"method">>)),
             key |-> IF Truthy(Get(entry.v, <<"tool">>))
                     THEN Get(entry.v, <<"tool">>).v \o <<".">>
                          \o StrOf(Get(entry.v, <<"method">>)) \o <<"_result">>
                     ELSE StrOf(Get(entry.v, <<"method">>)) \o <<"_result">>]
       ELSE [name |-> <<"unknown_step">>, key |-> <<"last_", "content">>]

Executed(name) == S(<<"Ejecutado ">> \o name \o <<" correctamente">>)

\* response_message out of the context entry (lines 399-421)
MessageFrom(d, src) ==
  IF ~Has(d, src.key) THEN Executed(src.name)
  ELSE IF IsDict(Get(d, src.key))
       THEN IF Has(Get(d, src.key).v, <<"message">>)
            THEN Get(Get(d, src.key).v, <<"message">>)
            ELSE IF Has(Get(d, src.key).v, <<"content">>)
                 THEN Get(Get(d, src.key).v, <<"content">>)
                 ELSE S(StrOf(Get(d, src.key)))
       ELSE IF IsStr(Get(d, src.key)) THEN Get(d, src.key) ELSE Executed(src.name)

response_message(d, res) ==
  IF IsNone(LastSuccessful(res)) THEN T("Operación completada")
  ELSE MessageFrom(d, MessageSource(LastSuccessful(res)))

\* successful_methods
RECURSIVE successful_methods(_)
successful_methods(res) ==
  IF res = <<>> THEN <<>>
  ELSE (IF ~IsSuccess(Head(res)) THEN <<>>
        ELSE IF Has(Head(res).v, <<"method">>) THEN <<Get(Head(res).v, <<"method">>)>>
        ELSE IF Get(Head(res).v, <<"type">>) = T("llm") THEN <<T("llm_processing")>>
        ELSE <<T("unknown_step")>>) \o successful_methods(Tail(res))

\* lines 331-454: what the orchestrator makes of the engine's result
Responded(r) ==
  IF r.t = "raised" THEN Escaped(r.v)
  ELSE IF Get(r.v.v, <<"success">>) # B(TRUE)
       THEN Failure(NoneV,
                    S(<<"[ORCH] Error en ejecución: ">>
                      \o (IF Has(r.v.v, <<"error">>) THEN StrOf(Get(r.v.v, <<"error">>))
                          ELSE <<"Error desconocido">>)),
                    <<KV(<<"data">>, D(<<KV(<<"results">>, Get(r.v.v, <<"results">>))>>))>>)
       ELSE Success(response_message(ctx.data, results),
                    D(<<KV(<<"tool_used">>, L(tool_list)),
                        KV(<<"methods_executed">>, L(successful_methods(results))),
                        KV(<<"total_steps">>, I(Len(results))),
                        KV(<<"context_keys">>, L(Keys(ctx.data)))>>))

Respond ==
  /\ pc = "returned"
  /\ IF ret.t = "returned" /\ Get(ret.v.v, <<"success">>) = B(TRUE)
     THEN IF SinkRaises("saving")
          THEN response' = Escaped("SinkError") /\ events' = events
          ELSE response' = Responded(ret) /\ events' = Emit(events, [type |-> "saving"])
     ELSE response' = Responded(ret) /\ events' = events
  /\ pc' = "done"
  /\ EngineIdle
  /\ UNCHANGED <<orch, invocations, llm_calls>>

\* Request-level specification: one call of orchestrator, through the engine
InitOrch ==
  /\ pc = "classify"
  /\ \E uid \in {NoneV, UserId}, sink \in BOOLEAN :
       orch = [NoOrch EXCEPT !.user_id = uid, !.sink = sink]
  /\ ctx = NewContext
  /\ tool_list = <<>> /\ sequence = <<>> /\ i = 0 /\ results = <<>>
  /\ iter = NoIter /\ ret = NoneV /\ response = NoneV
  /\ invocations = <<>> /\ llm_calls = <<>> /\ events = <<>>
  /\ ghost = NoEngineGhost

NextOrch ==
  \/ Classify \/ Chat \/ Probe \/ PlanSimple \/ PlanSequence \/ PlanNothing
  \/ EngineStep \/ Respond

SpecOrch == InitOrch /\ [][NextOrch]_vars

\* The same request with a progress sink that raises on one type of event
SinkFaults == {"analyzing", "planning", "executing", "saving"}

InitSink ==
  /\ pc = "classify"
  /\ \E uid \in {NoneV, UserId}, type \in SinkFaults :
       orch = [NoOrch EXCEPT !.user_id = uid, !.sink = TRUE, !.raises = type]
  /\ ctx = NewContext
  /\ tool_list = <<>> /\ sequence = <<>> /\ i = 0 /\ results = <<>>
  /\ iter = NoIter /\ ret = NoneV /\ response = NoneV
  /\ invocations = <<>> /\ llm_calls = <<>> /\ events = <<>>
  /\ ghost = NoEngineGhost

SpecSink == InitSink /\ [][NextOrch]_vars

----------------------------------------------------------------------------
\* Properties of orchestrator

\* the planner's LLM answered with text that is not JSON
PlannerNotJson ==
  \E n \in 1..Len(llm_calls) :
    llm_calls[n].purpose = "plan" /\ llm_calls[n].answered = "not_json"

FailureResponse ==
  /\ response.t = "returned"
  /\ Get(response.v.v, <<"success">>) = B(FALSE)
  /\ Truthy(Get(response.v.v, <<"error">>))

\* C8 as stated: when the planner's output is not valid JSON the request ends
\* with a failure response, no entry in results and no tool method invoked at
\* any point of the request.
C8_NoToolMethodAtAll ==
  (pc = "done" /\ PlannerNotJson)
    => FailureResponse /\ results = <<>> /\ invocations = <<>>

\* C8 amended: the same, the invocations being at most those of the connection
\* probe that precedes planning (test_connection of the tools of the request);
\* no method of a plan step is invoked.
C8_OnlyProbeBeforePlanning ==
  (pc = "done" /\ PlannerNotJson)
    => /\ FailureResponse /\ results = <<>>
       /\ \A n \in 1..Len(invocations) :
            /\ invocations[n].method = <<"test_connection">>
            /\ invocations[n].step = 0
       /\ sequence = <<>>

\* C8 witness: the request failed on a planner reply that is not JSON, after
\* the connection probe of gmail.
C8_Witness ==
  /\ pc = "done" /\ PlannerNotJson /\ FailureResponse
  /\ Len(invocations) = 1 /\ invocations[1].tool = "gmail"

\* C9 as stated: every call of the orchestrator ends by returning a response
\* that carries a success flag; no exception escapes.
C9_AlwaysResponds ==
  pc = "done" => response.t = "returned" /\ Has(response.v.v, <<"success">>)

\* the response reports success
SuccessResponse ==
  response.t = "returned" /\ Get(response.v.v, <<"success">>) = B(TRUE)

\* C12 as stated: when the plan has a single step and its tool is not found,
\* the run returns a failure (success false) and the orchestrator's response
\* does not report success.
C12_SoleStepToolNotFoundFails ==
  (Len(sequence) = 1 /\ UnknownTool(1) /\ pc \in {"returned", "done"})
    => /\ ret.t = "returned" /\ Get(ret.v.v, <<"success">>) = B(FALSE)
       /\ ~SuccessResponse

\* C13 as stated: in a request for one tool, a plan with a step (a ToolCall or
\* an Iteration) whose method is not a method of that tool is rejected: no run
\* of it is started, nothing of it is executed and the response is a failure.
C13_InvalidMethodRejectsPlan ==
  (Len(orch.actions) = 1 /\ orch.task_type \in {T("complex"), T("multi_tool")})
    => \A n \in 1..Len(sequence) :
         (sequence[n].action # "llm" /\ sequence[n].method # <<>>)
           => sequence[n].method \in MethodNames(orch.actions)

\* C17 as stated: a sink that raises does not affect the pipeline; the run
\* and the request end as they do with a sink that never fails, so the sink's
\* error is never what execute_method_sequence or orchestrator ends with.
C17_SinkErrorNeverSurfaces ==
  /\ ret # EngineRaised("SinkError")
  /\ response # Escaped("SinkError")

----------------------------------------------------------------------------
\* Outcomes of a run of execute_method_sequence

\* the run returned success true after every step of the plan was processed
\* (each processed step leaves one entry in results)
Completed ==
  /\ ret.t = "returned" /\ Get(ret.v.v, <<"success">>) = B(TRUE)
  /\ Len(results) = Len(sequence)

\* the run returned success false with the entries recorded so far
Aborted ==
  /\ ret.t = "returned" /\ Get(ret.v.v, <<"success">>) = B(FALSE)
  /\ Get(ret.v.v, <<"results">>) = L(results)

\* C21 as stated: a run that has ended is Completed or Aborted; it never ends
\* with an exception leaving execute_method_sequence.
C21_CompletedOrAborted ==
  pc = "returned" => ret.t # "raised" /\ (Completed \/ Aborted)

----------------------------------------------------------------------------
\* Properties of select_simple_method

HTML == <<"html">>
CONTENT_TYPE == <<"content_type">>

\* the legacy flag of a send_email selection
IsHtmlFlag(reply, key) == key = HTML /\ reply.method = <<"send_email">>

\* the selection carries the flag and the argument the flag is translated to
FlagAndContentType(reply) ==
  IsHtmlFlag(reply, HTML) /\ Has(reply.args, HTML) /\ Has(reply.args, CONTENT_TYPE)

\* the returned arguments of a selection: no html for send_email, content_type
\* text/html for a truthy flag, nothing for a falsy one, the rest unchanged
Translated(reply, out) ==
  /\ reply.method = <<"send_email">> => ~Has(out, HTML)
  /\ (IsHtmlFlag(reply, HTML) /\ Has(reply.args, HTML) /\ Truthy(Get(reply.args, HTML)))
       => Get(out, CONTENT_TYPE) = TEXT_HTML
  /\ \A m \in 1..Len(reply.args) :
       ~IsHtmlFlag(reply, reply.args[m].k)
         => Has(out, reply.args[m].k) /\ Get(out, reply.args[m].k) = reply.args[m].v
  /\ \A m \in 1..Len(out) :
       \/ Has(reply.args, out[m].k) /\ ~IsHtmlFlag(reply, out[m].k)
       \/ /\ out[m].k = CONTENT_TYPE /\ IsHtmlFlag(reply, HTML)
          /\ Has(reply.args, HTML) /\ Truthy(Get(reply.args, HTML))

\* the selections select_simple_method accepts, for the methods of the request
Accepted(reply) == ~select_simple_method(MethodNames(orch.actions), reply).error

Selecting == pc = "plan" /\ orch.task_type = T("simple")

\* C22 as stated: for every selection the simple flow accepts, the returned
\* arguments of send_email hold no html key, a truthy html flag has become
\* content_type = "text/html", a falsy one is dropped, and every other key
\* and value of the selection is returned unchanged.
C22_HtmlFlagTranslatedAlways ==
  Selecting
    => \A reply \in SimpleReplies :
         Accepted(reply)
           => Translated(reply,
                         select_simple_method(MethodNames(orch.actions), reply).step.args)

\* C22 amended: the same for every selection that does not carry both html and
\* content_type; in one that carries both with a truthy flag, html is removed,
\* the other keys are unchanged and content_type is "text/html" when html comes
\* after content_type in the selection, the selection's own value otherwise.
C22_HtmlFlagTranslated ==
  Selecting
    => \A reply \in SimpleReplies :
         Accepted(reply)
           => LET out == select_simple_method(MethodNames(orch.actions), reply).step.args
                  at(key) == CHOOSE m \in 1..Len(reply.args) : reply.args[m].k = key
              IN IF ~FlagAndContentType(reply) THEN Translated(reply, out)
                 ELSE /\ ~Has(out, HTML)
                      /\ \A m \in 1..Len(reply.args) :
                           reply.args[m].k \notin {HTML, CONTENT_TYPE}
                             => Get(out, reply.args[m].k) = reply.args[m].v
                      /\ Get(out, CONTENT_TYPE)
                           = IF Truthy(Get(reply.args, HTML)) /\ at(HTML) > at(CONTENT_TYPE)
                             THEN TEXT_HTML ELSE Get(reply.args, CONTENT_TYPE)

\* C22 witness: the run started by the simple flow has a send_email step with
\* content_type "text/html" in place of the html flag, and the other
\* arguments of the selection.
C22_Witness ==
  /\ pc = "exec" /\ orch.task_type = T("simple")
  /\ Len(sequence) = 1 /\ sequence[1].method = <<"send_email">>
  /\ ~Has(sequence[1].args, HTML)
  /\ Get(sequence[1].args, CONTENT_TYPE) = TEXT_HTML
  /\ Get(sequence[1].args, <<"body">>) = T("hello")

----------------------------------------------------------------------------
\* Properties of the argument resolution of a ToolCall step

\* the LLM pass gave no usable value for name: no key, or null
NoUsableValue(answer, name) ==
  answer.kind = "object" /\ IsNone(Get(answer.obj, name))

\* the arguments a ToolCall step builds from the resolver's mapping dyn
BuiltFrom(dyn, gen) ==
  BuildArgs([ctx |-> dyn.ctx, resolved |-> <<>>, asked |-> <<>>],
            CurrentStep.args, dyn.resolved, gen).resolved

\* the parameters of the step that had no usable value from the LLM get the
\* value of the context resolver
FallsBack(answer, dyn, gen) ==
  \A m \in 1..Len(CurrentStep.args) :
    (StrIs(CurrentStep.args[m].v, <<"dynamic">>)
       /\ SeqHas(Remaining(ctx, CurrentStep.args), CurrentStep.args[m].k)
       /\ NoUsableValue(answer, CurrentStep.args[m].k))
      => Get(BuiltFrom(dyn, gen), CurrentStep.args[m].k)
           = resolve_parameter(dyn.ctx, CurrentStep.args[m].k).value

\* C23 as stated: in a ToolCall step, each parameter marked "dynamic" that
\* the LLM was asked for and gave no usable value to (its key is missing from
\* the answer, or its value is null) is built with the value the plain
\* context resolver gives it.
C23_UnresolvedFallsBackToContext ==
  (Dispatch = "toolcall" /\ Remaining(ctx, CurrentStep.args) # <<>>)
    => \A answer \in Answers(ctx, CurrentStep.args), gen \in Gens(CurrentStep.args) :
         FallsBack(answer,
                   resolve_dynamic_arguments_with_llm(ctx, CurrentStep.method,
                                                      CurrentStep.args, answer),
                   gen)

----------------------------------------------------------------------------
\* Properties of extract_iterable (execute_iteration_step)

PlainItems(name) == L(<<D(<<KV(<<"name">>, T(name))>>)>>)

\* values the source of an Iteration step can resolve to
SourceValues ==
  { NoneV, T("plain"), L(IdItems("m", 2)), ListFilesResult, ListEmailsResult,
    D(<<KV(<<"success">>, B(TRUE))>>),
    D(<<KV(<<"files">>, PlainItems("f1")), KV(<<"folders">>, PlainItems("d1"))>>),
    D(<<KV(<<"files">>, PlainItems("f1")), KV(<<"message", "s">>, L(IdItems("m", 2)))>>) }

\* the fields of an object that are lists of objects
ListFields(value) ==
  SelectSeq(value.v, LAMBDA f : IsList(f.v) /\ \A n \in 1..Len(f.v.v) : IsDict(f.v.v[n]))

AllCarryId(f) == \A n \in 1..Len(f.v.v) : Has(f.v.v[n].v, <<"id">>)

\* more than one list-of-objects field, none singled out by identifiers
Ambiguous(value) ==
  /\ IsDict(value) /\ Len(ListFields(value)) > 1
  /\ \A n \in 1..Len(ListFields(value)) : ~AllCarryId(ListFields(value)[n])

\* neither a list nor an object with a list-of-objects field
NotIterable(value) ==
  ~IsList(value) /\ ~(IsDict(value) /\ Len(ListFields(value)) > 0)

\* C24 as stated: for an Iteration step, a source value that is ambiguous or
\* not iterable yields no list to iterate: the step fails with the error
\* naming the source and the method is invoked for no element.
C24_AmbiguousSourceFails ==
  Dispatch = "iteration"
    => \A value \in SourceValues \cup {resolve_parameter(ctx, CurrentStep.source).value} :
         (Ambiguous(value) \/ NotIterable(value)) => ~extract_iterable(value).ok

----------------------------------------------------------------------------
\* LLM calls and counters of the argument resolution of a ToolCall step

\* the requests the resolver made to the LLM in this step
ResolverCalls ==
  SelectSeq(SubSeq(llm_calls', Len(llm_calls) + 1, Len(llm_calls')),
            LAMBDA c : c.purpose = "resolve_arguments")

\* name is an identifier parameter of the step that an accumulated list resolves
CounterResolved(name) ==
  /\ SeqHas(dynamic_params(CurrentStep.args), name)
  /\ EndsWith(name, "_id") /\ IsList(IdListFor(ctx.data, name))

\* C25: the argument resolution of a ToolCall step calls the resolver's LLM
\* at most once, and not at all when the step has no dynamic parameter or
\* when each of them is an identifier parameter that an accumulated list
\* resolves; the counter of each such identifier parameter is one more after
\* the step, whatever happens to the other parameters.
C25_OneResolverCallPerStep ==
  [][Dispatch = "toolcall"
       => /\ Len(ResolverCalls) <= 1
          /\ (\A n \in 1..Len(dynamic_params(CurrentStep.args)) :
                CounterResolved(dynamic_params(CurrentStep.args)[n]))
               => ResolverCalls = <<>>
          /\ \A n \in 1..Len(CurrentStep.args) :
               CounterResolved(CurrentStep.args[n].k)
                 => Counter(ctx', CurrentStep.args[n].k)
                      = Counter(ctx, CurrentStep.args[n].k) + 1]_vars

\* C25 witness: after list_emails, read_email was invoked with message_id
\* taken from the list by the counter (now 1) and user_id taken from the
\* context by the fallback, the LLM having been asked once, for user_id alone.
C25_Witness ==
  /\ Len(sequence) = 2 /\ sequence[2] = StepReadAsUser /\ i = 2
  /\ Counter(ctx, MESSAGE_ID) = 1
  /\ Len(llm_calls) = 1 /\ llm_calls[1].purpose = "resolve_arguments"
  /\ llm_calls[1].keys = <<USER_ID>>
  /\ \E n \in 1..Len(invocations) :
       /\ invocations[n].step = 2
       /\ Get(invocations[n].args, MESSAGE_ID) = FirstListedId
       /\ Get(invocations[n].args, USER_ID) = UserId

----------------------------------------------------------------------------
\* Progress notifications of execute_method_sequence

\* the label the notification of a step carries
LabelOf(step) ==
  IF step.action = "llm" THEN <<"llm_processing">>
  ELSE IF step.iterate THEN step.method \o <<"_iteration">>
  ELSE step.method

\* step n is left by the `break` of a run without tools
LeftWithoutTool(n) == tool_list = <<>> /\ sequence[n].action # "llm"

\* events[e] is the notification of step n
Notifies(e, n) ==
  /\ events[e].type = "executing"
  /\ events[e].step = n /\ events[e].total = Len(sequence)
  /\ events[e].method = LabelOf(sequence[n])

\* C26: with an event sink, every step the engine has processed, a step whose
\* tool is not in the registry included, has a notification with its 1-based
\* index, the number of steps and its label; no method is invoked for a step
\* that has no notification; the notifications come in strictly increasing
\* order of step index.
C26_EveryProcessedStepNotified ==
  orch.sink =>
    /\ \A n \in 1..Len(sequence) :
         (Processed(n) /\ ~LeftWithoutTool(n))
           => \E e \in 1..Len(events) : Notifies(e, n)
    /\ \A c \in 1..Len(invocations) :
         \E e \in 1..Len(events) : Notifies(e, invocations[c].step)
    /\ \A e1, e2 \in 1..Len(events) : e1 < e2 => events[e1].step < events[e2].step

----------------------------------------------------------------------------
\* The arguments a ToolCall step passes to its method

\* the step invokes its method in this transition
Invokes ==
  /\ Dispatch = "toolcall"
  /\ Len(invocations') = Len(invocations) + 1
  /\ invocations'[Len(invocations')].step = i + 1

\* the plan value is a literal: not "dynamic", not a generation sentinel
IsLiteral(value) ==
  ~(IsStr(value) /\ Lower(value.v) = <<"dynamic">>) /\ ~IsSentinel(value)

\* C27: when a ToolCall step invokes its method, every argument whose plan
\* value is a literal is passed with that value, and every identifier
\* parameter the counter resolves is passed with the identifier the counter
\* selects, whatever the resolver's LLM answered.
C27_LiteralsAndCountedIdsPassedAsIs ==
  [][Invokes
       => \A n \in 1..Len(CurrentStep.args) :
            LET name == CurrentStep.args[n].k
                value == CurrentStep.args[n].v
                passed == invocations'[Len(invocations')].args
            IN /\ IsLiteral(value) => Has(passed, name) /\ Get(passed, name) = value
               /\ CounterResolved(name)
                    => /\ Has(passed, name)
                       /\ Get(passed, name) = resolve_id_parameter(ctx, name).value]_vars

----------------------------------------------------------------------------
\* The caller identity the invoked methods receive

\* the method of invocation c has a user_id parameter in its signature
AcceptsUserId(c) ==
  \E n \in 1..Len(TOOL_REGISTRY(invocations[c].tool)) :
    /\ TOOL_REGISTRY(invocations[c].tool)[n].name = invocations[c].method
    /\ SeqHas(TOOL_REGISTRY(invocations[c].tool)[n].params, USER_ID)

\* C28: in a run whose context was given the caller identity, every
\* invocation of a method that accepts user_id, by a ToolCall step or for an
\* element of an Iteration step, passes user_id equal to that identity,
\* whatever the plan's arguments and the resolver's answer are.
C28_UserIdIsTheCallers ==
  orch.user_id # NoneV
    => \A c \in 1..Len(invocations) :
         AcceptsUserId(c)
           => /\ Has(invocations[c].args, USER_ID)
              /\ Get(invocations[c].args, USER_ID) = orch.user_id

----------------------------------------------------------------------------
\* The order in which the counter walks an identifier list

\* this transition is a resolution of name that went through the counter
CounterBased(name) ==
  /\ ghost'.resolves = ghost.resolves + 1 /\ ghost'.last.name = name
  /\ Counter(ctx', name) = Counter(ctx, name) + 1

\* the index of the list the resolution returns
IndexReturned(name) ==
  IF Counter(ctx, name) < Len(IdListFor(ctx.data, name).v)
  THEN Counter(ctx, name)
  ELSE Len(IdListFor(ctx.data, name).v) - 1

\* an earlier counter-based resolution of name returned value
ReturnedBefore(name, value) ==
  \E m \in 1..Len(ghost.returned) : ghost.returned[m] = [name |-> name, value |-> value]

\* C29: under any interleaving of store_result calls and resolutions, a
\* counter-based resolution of an identifier parameter returns the identifier
\* at an index of the list only when every identifier at a lower index has
\* been returned by an earlier resolution of that name, also after the list
\* has grown past a counter that had reached its end.
C29_ListWalkedWithoutSkipping ==
  [][\A name \in ResolveNames :
       CounterBased(name)
         => \A k \in 1..IndexReturned(name) :
              ReturnedBefore(name, IdListFor(ctx.data, name).v[k])]_vars

----------------------------------------------------------------------------
\* A method that reports its failure in the object it returns

\* entry n of results is that of a ToolCall step whose method returned an
\* object with the success flag false
MethodReportedFailure(n) ==
  /\ Has(results[n].v, <<"method">>) /\ Has(results[n].v, <<"result">>)
  /\ Get(results[n].v, <<"result">>).t = "str200"
  /\ IsDict(Get(results[n].v, <<"result">>).v)
  /\ Get(Get(results[n].v, <<"result">>).v.v, <<"success">>) = B(FALSE)

\* C30: when the method of a ToolCall step returns an object whose success
\* flag is false, the step is not recorded as a successful StepResult, the
\* run stops there and reports a failure.
C30_ReturnedFailureStopsTheRun ==
  \A n \in 1..Len(results) :
    MethodReportedFailure(n)
      => /\ Get(results[n].v, <<"success">>) = B(FALSE)
         /\ n = Len(results) /\ pc = "returned"
         /\ Get(ret.v.v, <<"success">>) = B(FALSE)

====
